---- MODULE Spec2Model ----
(***************************************************************************)
(* A model of the PostgreSQL adapter of fortune-postgres: the value codec  *)
(* (lib/helpers.js), the statement builders and their execution on the     *)
(* connections pg.connect hands out (lib/index.js).                        *)
(*                                                                         *)
(* JavaScript values are records [k, n, s, b]: k is the kind ("null",      *)
(* "undef", "num", "nan", "str", "buf"; "throw" where an exception took    *)
(* the place of a value), n the number (of a Buffer, its byteOffset), s    *)
(* the characters of a string (one-character strings), b the bytes of a    *)
(* Buffer.  A field of a                                                   *)
(* record, or the value of an option, is a cell [arr, items]: arr says     *)
(* whether the JavaScript value is an Array, items are its elements (one   *)
(* element for a value that is no Array).  A JavaScript object is a        *)
(* function from its own keys; an object whose key order matters (the      *)
(* options iterated with for..in) is a sequence of [f, v] pairs.           *)
(***************************************************************************)
EXTENDS Integers, Sequences, FiniteSets, TLC

\* ------------------------------------------------------------------ bounds
\* longest Buffer the codec is driven with
MaxBuf == 2
\* longest array of Buffers in a record the codec is driven with
MaxBlobs == 2
\* most rows the callers put into the table
MaxRows == 2
\* most keys the callers let the store assign
MaxSerial == 2
\* longest array a caller lets a field grow to by pushing
MaxTags == 2
\* most calls whose promises the application holds at a time
MaxCalls == 2
\* most calls of adapter methods, connect and disconnect among them, the
\* application makes in a run
MaxMade == 3
\* most statements waiting on the connections
MaxQueue == 4
\* most times the application calls disconnect
MaxDone == 2
\* most transactions the callers begin
MaxTx == 2
\* most statements a caller runs on one transaction scope
MaxTxOps == 2
\* most times a caller ends one transaction scope
MaxEnds == 2
\* most calls the application makes of beginTransaction and of the methods
\* of the scopes in a run
MaxTxMade == 5
\* most times the application calls connect again
MaxConnects == 1

VARIABLES
  recordTypes,        \* this.recordTypes[type]: field name -> field definition
  generatePrimaryKey, \* whether options.generatePrimaryKey is a generator
  primaryKeyType,     \* the type of the key column: "text" or "serial"
  table,              \* the rows of the type's table in the store
  serial,             \* the last value of the key column's sequence
  calls,              \* the calls of adapter methods whose outcome the
                      \* application has not taken yet
  queue,              \* the statements handed to client.query that their
                      \* connection has not run yet, oldest first
  conn,               \* this.client and this.done of the adapter, the calls
                      \* of connect, and the connections pg has handed out
  made,               \* how many calls of adapter methods were made
  request,            \* the find the application repeats, where it has one
  compiled,           \* generateQuery on one filter: [pc, filter, where,
                      \* parameters, err]
  cval,               \* codec, one value:  [pc, orig, cur]
  crec,               \* codec, one record: [pc, orig, cur]
  tx                  \* beginTransaction / endTransaction: the scopes, the
                      \* calls that end them and the statements completed

codecVars == <<cval, crec, compiled>>
configVars == <<recordTypes, generatePrimaryKey, primaryKeyType, request>>
storeVars == <<table, serial>>
callVars == <<calls, queue, conn, made>>
txVars == <<tx>>

\* ------------------------------------------------------------------ values
Null == [k |-> "null", n |-> 0, s |-> <<>>, b |-> <<>>]
Undef == [k |-> "undef", n |-> 0, s |-> <<>>, b |-> <<>>]
Num(x) == [k |-> "num", n |-> x, s |-> <<>>, b |-> <<>>]
Str(chars) == [k |-> "str", n |-> 0, s |-> chars, b |-> <<>>]
Buf(bytes) == [k |-> "buf", n |-> 0, s |-> <<>>, b |-> bytes]
BufAt(bytes, offset) == [k |-> "buf", n |-> offset, s |-> <<>>, b |-> bytes]
NaN == [k |-> "nan", n |-> 0, s |-> <<>>, b |-> <<>>]

\* what a call gives when it ends with an exception where a value was to
\* come, and where a record was to come
Throw(name) == [k |-> "throw", n |-> 0, s |-> <<name>>, b |-> <<>>]
isThrow(value) == value.k = "throw"
Thrown(name) == [threw |-> name]
isThrown(record) == DOMAIN record = {"threw"}

Scalar(v) == [arr |-> FALSE, items |-> <<v>>]
Array(vs) == [arr |-> TRUE, items |-> vs]

isBuffer(value) == value.k = "buf"

\* JavaScript truthiness of a value that is no Array
truthy(value) ==
  CASE value.k = "null" -> FALSE
    [] value.k = "undef" -> FALSE
    [] value.k = "num" -> value.n # 0
    [] value.k = "str" -> value.s # <<>>
    [] value.k = "nan" -> FALSE
    [] OTHER -> TRUE

MapSeq(Op(_), seq) == [i \in 1..Len(seq) |-> Op(seq[i])]

RECURSIVE total(_)
total(ns) == IF ns = <<>> THEN 0 ELSE ns[1] + total(Tail(ns))

\* this.keys.primary and the field-definition keys of the host framework
primaryKey == "id"

\* ------------------------------------------------------------------- codec
HexDigits == <<"0", "1", "2", "3", "4", "5", "6", "7",
               "8", "9", "a", "b", "c", "d", "e", "f">>

\* Buffer.prototype.toString('hex')
RECURSIVE toHex(_)
toHex(bytes) ==
  IF bytes = <<>> THEN <<>>
  ELSE <<HexDigits[(bytes[1] \div 16) + 1], HexDigits[(bytes[1] % 16) + 1]>>
       \o toHex(Tail(bytes))

\* the digits a..f are read in either case
UpperDigits == <<"0", "1", "2", "3", "4", "5", "6", "7",
                 "8", "9", "A", "B", "C", "D", "E", "F">>

isHexDigit(c) == \E i \in 1..16 : HexDigits[i] = c \/ UpperDigits[i] = c
hexValue(c) ==
  (CHOOSE i \in 1..16 : HexDigits[i] = c \/ UpperDigits[i] = c) - 1

\* new Buffer(string, 'hex'): pairs of digits, cut at the first pair that is
\* no hexadecimal number
RECURSIVE fromHex(_)
fromHex(chars) ==
  IF Len(chars) < 2 THEN <<>>
  ELSE IF ~(isHexDigit(chars[1]) /\ isHexDigit(chars[2])) THEN <<>>
  ELSE <<hexValue(chars[1]) * 16 + hexValue(chars[2])>>
       \o fromHex(SubSeq(chars, 3, Len(chars)))

\* String.prototype.slice(2)
slice2(chars) == SubSeq(chars, 3, Len(chars))

\* mutant: the marker is taken to be one character long
outputBufferSlice1(value) ==
  IF isBuffer(value) THEN value
  ELSE IF value.k # "str" THEN Throw("TypeError")
  ELSE Buf(fromHex(SubSeq(value.s, 2, Len(value.s))))

inputValue(value) ==
  IF isBuffer(value) THEN Str(<<"\\", "x">> \o toHex(value.b)) ELSE value

\* a Buffer as it is, a string decoded from its third character on; a
\* value of another kind has no slice method, or no property at all
outputBuffer(value) ==
  IF isBuffer(value) THEN value
  ELSE IF value.k # "str" THEN Throw("TypeError")
  ELSE Buf(fromHex(slice2(value.s)))

\* the characters of the bytes 32 .. 126 (the grave accent by its code point)
Ascii ==
  <<" ", "!", "\"", "#", "$", "%", "&", "'", "(", ")",
    "*", "+", ",", "-", ".", "/", "0", "1", "2", "3",
    "4", "5", "6", "7", "8", "9", ":", ";", "<", "=",
    ">", "?", "@", "A", "B", "C", "D", "E", "F", "G",
    "H", "I", "J", "K", "L", "M", "N", "O", "P", "Q",
    "R", "S", "T", "U", "V", "W", "X", "Y", "Z", "[",
    "\\", "]", "^", "_", "U+0060", "a", "b", "c", "d", "e",
    "f", "g", "h", "i", "j", "k", "l", "m", "n", "o",
    "p", "q", "r", "s", "t", "u", "v", "w", "x", "y",
    "z", "{", "|", "}", "~">>

\* buffer.toString(): the bytes decoded as UTF-8 into the UTF-16 code units
\* of a string.  A code unit from 32 to 126 is its character, any other is
\* written by its number, U+ and four hexadecimal digits.
codeUnit(u) ==
  IF u >= 32 /\ u <= 126 THEN Ascii[u - 31]
  ELSE "U+" \o HexDigits[(u \div 4096) + 1]
            \o HexDigits[((u \div 256) % 16) + 1]
            \o HexDigits[((u \div 16) % 16) + 1]
            \o HexDigits[(u % 16) + 1]

\* a code point from 65536 on is a pair of surrogates
codeUnits(point) ==
  IF point < 65536 THEN <<codeUnit(point)>>
  ELSE <<codeUnit(55296 + ((point - 65536) \div 1024)),
         codeUnit(56320 + ((point - 65536) % 1024))>>

\* the continuation bytes a lead byte asks for; a byte from 128 on that is
\* no lead byte asks for none
utf8Needed(lead) ==
  CASE lead >= 194 /\ lead <= 223 -> 1
    [] lead >= 224 /\ lead <= 239 -> 2
    [] lead >= 240 /\ lead <= 244 -> 3
    [] OTHER -> 0

\* whether byte may be the k-th byte after lead: the first one is bounded
\* by the lead byte (no overlong form, no surrogate, nothing above U+10FFFF)
utf8Continues(lead, k, byte) ==
  IF k = 1
    THEN /\ byte >= (IF lead = 224 THEN 160 ELSE IF lead = 240 THEN 144 ELSE 128)
         /\ byte <= (IF lead = 237 THEN 159 ELSE IF lead = 244 THEN 143 ELSE 191)
  ELSE byte >= 128 /\ byte <= 191

\* how many of the bytes after bytes[i] go on its sequence, from the k-th on
RECURSIVE utf8Taken(_, _, _)
utf8Taken(bytes, i, k) ==
  IF \/ k > utf8Needed(bytes[i])
     \/ i + k > Len(bytes)
     \/ ~utf8Continues(bytes[i], k, bytes[i + k])
    THEN k - 1
  ELSE utf8Taken(bytes, i, k + 1)

utf8Point(bytes, i, n) ==
  CASE n = 1 -> (bytes[i] - 192) * 64 + (bytes[i + 1] - 128)
    [] n = 2 -> (bytes[i] - 224) * 4096 + (bytes[i + 1] - 128) * 64
                  + (bytes[i + 2] - 128)
    [] OTHER -> (bytes[i] - 240) * 262144 + (bytes[i + 1] - 128) * 4096
                  + (bytes[i + 2] - 128) * 64 + (bytes[i + 3] - 128)

\* a complete sequence is its code point; a sequence that is cut short, by
\* a byte that does not go on it or by the end of the bytes, is one U+FFFD,
\* and so is a byte that begins none.  The byte that cut it is read again.
RECURSIVE utf8From(_, _)
RECURSIVE utf8Sequence(_, _, _)
utf8Sequence(bytes, i, taken) ==
  (IF utf8Needed(bytes[i]) > 0 /\ taken = utf8Needed(bytes[i])
     THEN codeUnits(utf8Point(bytes, i, taken))
   ELSE <<"U+fffd">>)
  \o utf8From(bytes, i + taken + 1)

utf8From(bytes, i) ==
  IF i > Len(bytes) THEN <<>>
  ELSE IF bytes[i] < 128 THEN <<codeUnit(bytes[i])>> \o utf8From(bytes, i + 1)
  ELSE utf8Sequence(bytes, i, utf8Taken(bytes, i, 1))

utf8Text(bytes) == utf8From(bytes, 1)

\* the number a string holding an integer literal is read as: decimal digits
\* after an optional sign, or digits in base 16, 8 or 2 after 0x, 0o or 0b;
\* white space and line terminators around it are dropped and the empty
\* string is 0.  A string
\* that is no number gives NaN; decimal points and exponents are not among
\* the strings the model is driven with.
RECURSIVE radixValue(_, _, _)
radixValue(chars, radix, acc) ==
  IF chars = <<>> THEN acc
  ELSE radixValue(Tail(chars), radix, acc * radix + hexValue(chars[1]))

\* the white space and line terminator characters of the language
isSpace(c) ==
  c \in {" ", "U+0009", "U+000a", "U+000b", "U+000c", "U+000d", "U+00a0",
         "U+1680", "U+2000", "U+2001", "U+2002", "U+2003", "U+2004",
         "U+2005", "U+2006", "U+2007", "U+2008", "U+2009", "U+200a",
         "U+2028", "U+2029", "U+202f", "U+205f", "U+3000", "U+feff"}

RECURSIVE trim(_)
trim(chars) ==
  IF chars # <<>> /\ isSpace(chars[1]) THEN trim(Tail(chars))
  ELSE IF chars # <<>> /\ isSpace(chars[Len(chars)])
    THEN trim(SubSeq(chars, 1, Len(chars) - 1))
  ELSE chars

inRadix(chars, radix) ==
  /\ chars # <<>>
  /\ \A i \in 1..Len(chars) :
       isHexDigit(chars[i]) /\ hexValue(chars[i]) < radix

toNumber(string) ==
  LET t == trim(string)
      signed == t # <<>> /\ t[1] \in {"+", "-"}
      body == IF signed THEN Tail(t) ELSE t
      prefixed == Len(t) > 2 /\ t[1] = "0"
      rest == SubSeq(t, 3, Len(t))
  IN CASE t = <<>> -> Num(0)
       [] prefixed /\ t[2] \in {"x", "X"} /\ inRadix(rest, 16) ->
            Num(radixValue(rest, 16, 0))
       [] prefixed /\ t[2] \in {"o", "O"} /\ inRadix(rest, 8) ->
            Num(radixValue(rest, 8, 0))
       [] prefixed /\ t[2] \in {"b", "B"} /\ inRadix(rest, 2) ->
            Num(radixValue(rest, 2, 0))
       [] inRadix(body, 10) ->
            Num(IF signed /\ t[1] = "-" THEN 0 - radixValue(body, 10, 0)
                ELSE radixValue(body, 10, 0))
       [] OTHER -> NaN

\* the byte an element of an Array becomes in new Buffer(array): its number
\* modulo 256, 0 when it is no number.  A Buffer is read through its text.
toByte(number) == IF number.k = "num" THEN number.n % 256 ELSE 0

octet(value) ==
  toByte(CASE value.k = "num" -> value
           [] value.k \in {"str", "buf"} ->
                toNumber(IF value.k = "buf" THEN utf8Text(value.b) ELSE value.s)
           [] value.k = "null" -> Num(0)
           [] OTHER -> NaN)

\* outputBuffer of an Array: Array.prototype.slice(2), then new Buffer of
\* the Array that is left (the encoding is not looked at)
outputBufferArray(items) ==
  Buf([i \in 1..(IF Len(items) > 2 THEN Len(items) - 2 ELSE 0) |->
         octet(items[i + 2])])

inputRecord(record, generated) ==
  LET fields == recordTypes
      keyed == IF primaryKey \notin DOMAIN record /\ generatePrimaryKey
               THEN [f \in DOMAIN record \cup {primaryKey} |->
                       IF f = primaryKey THEN Scalar(generated) ELSE record[f]]
               ELSE record
      \* record[field].map where the value is no Array: a Buffer has a map
      \* method of its own that gives a Buffer of the same bytes, any other
      \* value has none
      noMap(f) == /\ f \in DOMAIN fields /\ f \in DOMAIN keyed
                  /\ fields[f].isArray
                  /\ ~keyed[f].arr /\ ~isBuffer(keyed[f].items[1])
  IN IF \E f \in DOMAIN keyed : noMap(f) THEN Thrown("TypeError")
     ELSE
     [f \in DOMAIN keyed \cup DOMAIN fields |->
        IF f \notin DOMAIN fields THEN keyed[f]
        ELSE IF f \notin DOMAIN keyed
          THEN (IF fields[f].isArray THEN Array(<<>>) ELSE Scalar(Null))
        ELSE IF keyed[f].arr /\ fields[f].isArray
          THEN Array(MapSeq(inputValue, keyed[f].items))
        ELSE IF keyed[f].arr \/ fields[f].isArray THEN keyed[f]
        ELSE Scalar(inputValue(keyed[f].items[1]))]

\* the fields outputRecord copies: a denormalized inverse always, a binary
\* field with a truthy value that is no Buffer always, any other when the
\* row has it
throwing(cell) == \E i \in 1..Len(cell.items) : isThrow(cell.items[i])

outputRecord(record) ==
  LET fields == recordTypes
      has(f) == f \in DOMAIN record
      binary(f) == /\ fields[f].type = "Buffer"
                   /\ has(f)
                   /\ (record[f].arr \/ truthy(record[f].items[1]))
                   /\ (record[f].arr \/ ~isBuffer(record[f].items[1]))
      kept == {f \in DOMAIN fields :
                 fields[f].denormalizedInverse \/ binary(f) \/ has(f)}
      \* value.map(outputBuffer) : outputBuffer(value)
      decoded(f) ==
        CASE fields[f].isArray /\ record[f].arr ->
               Array(MapSeq(outputBuffer, record[f].items))
          [] fields[f].isArray -> Scalar(Throw("TypeError"))
          [] record[f].arr -> Scalar(outputBufferArray(record[f].items))
          [] OTHER -> Scalar(outputBuffer(record[f].items[1]))
      throws(f) == /\ ~fields[f].denormalizedInverse
                   /\ binary(f)
                   /\ throwing(decoded(f))
  IN IF \E f \in DOMAIN fields : throws(f) THEN Thrown("TypeError")
     ELSE
     [f \in kept \cup {primaryKey} |->
        IF f = primaryKey
          THEN (IF has(f) THEN record[f] ELSE Scalar(Undef))
        ELSE IF fields[f].denormalizedInverse
          THEN (IF has(f) THEN record[f] ELSE Scalar(Undef))
        ELSE IF binary(f) THEN decoded(f)
        ELSE record[f]]

\* getCode: error.code || error.sqlState
getCode(error) == IF error.code # "" THEN error.code ELSE error.sqlState

\* --------------------------------------------------------- field schemas
FieldDef(t, a) == [type |-> t, isArray |-> a, denormalizedInverse |-> FALSE]

\* a record type with binary fields, for the codec
BlobType == [f \in {"data", "blobs", "name"} |->
  CASE f = "data" -> FieldDef("Buffer", FALSE)
    [] f = "blobs" -> FieldDef("Buffer", TRUE)
    [] OTHER -> FieldDef("String", FALSE)]

\* a record type with a text, a number and a text-array field
UserType == [f \in {"name", "age", "tags"} |->
  CASE f = "name" -> FieldDef("String", FALSE)
    [] f = "age" -> FieldDef("Number", FALSE)
    [] OTHER -> FieldDef("String", TRUE)]

\* Object.keys(fields).sort(), over the field names the model uses; the
\* record types declare their fields in this order, so that Object.keys(fields)
\* is the same sequence
FieldOrder == <<"age", "blobs", "data", "name", "tags">>
orderedFields == SelectSeq(FieldOrder, LAMBDA f : f \in DOMAIN recordTypes)

\* ------------------------------------------------------- statement text
\* A statement is a record; its text is kept as structure.  A WHERE clause
\* is the sequence of its conjuncts [op, field, args]; an argument is what
\* the text holds at that place: [dollar, n, cast] is $n with its cast when
\* dollar is TRUE and the bare number n when it is FALSE.
Ph(n, cast) == [dollar |-> TRUE, n |-> n, cast |-> cast]
Bare(n) == [dollar |-> FALSE, n |-> n, cast |-> ""]
Clause(op, field, args) == [op |-> op, field |-> field, args |-> args]

\* the $N placeholders of a sequence of clauses, in text order
RECURSIVE placeholders(_)
placeholders(clauses) ==
  IF clauses = <<>> THEN <<>>
  ELSE LET a == clauses[1].args
       IN [i \in 1..Len(SelectSeq(a, LAMBDA x : x.dollar)) |->
             SelectSeq(a, LAMBDA x : x.dollar)[i].n]
          \o placeholders(Tail(clauses))

\* String(value) of a number or a string
RECURSIVE digits(_)
digits(n) ==
  IF n < 0 THEN <<"-">> \o digits(0 - n)
  ELSE IF n < 10 THEN <<HexDigits[n + 1]>>
  ELSE digits(n \div 10) \o <<HexDigits[(n % 10) + 1]>>

toString(value) ==
  CASE value.k = "str" -> value.s
    [] value.k = "num" -> digits(value.n)
    [] value.k = "null" -> <<"n", "u", "l", "l">>
    [] value.k = "undef" -> <<"u", "n", "d", "e", "f", "i", "n", "e", "d">>
    [] value.k = "nan" -> <<"N", "a", "N">>
    [] OTHER -> utf8Text(value.b)

isDigit(c) == \E d \in 1..10 : HexDigits[d] = c

\* the value of the leading decimal digits of chars, from acc on
RECURSIVE parseIntFrom(_, _)
parseIntFrom(chars, acc) ==
  IF chars = <<>> \/ ~isDigit(chars[1]) THEN acc
  ELSE parseIntFrom(Tail(chars), acc * 10 + hexValue(chars[1]))

\* chars without its leading white space
RECURSIVE trimStart(_)
trimStart(chars) ==
  IF chars # <<>> /\ isSpace(chars[1]) THEN trimStart(Tail(chars)) ELSE chars

\* parseInt(string, 10): white space, a sign, then decimal digits; NaN when
\* there is no digit
parseInt(string) ==
  LET t == trimStart(string)
      signed == t # <<>> /\ t[1] \in {"+", "-"}
      body == IF signed THEN Tail(t) ELSE t
      n == parseIntFrom(body, 0)
  IN IF body = <<>> \/ ~isDigit(body[1]) THEN NaN
     ELSE Num(IF signed /\ t[1] = "-" THEN 0 - n ELSE n)

\* ------------------------------------------------------------------ find
\* The state of find's statement-building pass: the counter index, the
\* parameter list, the WHERE conjuncts so far, and err, the exception that
\* ended the pass ("" when none).
Build0 == [index |-> 0, parameters |-> <<>>, where |-> <<>>, err |-> ""]

\* value.map(mapValue) / value.map(mapValueCast): one placeholder and one
\* parameter per element
RECURSIVE mapValues(_, _, _)
mapValues(b, values, withCast) ==
  IF values = <<>> THEN [b |-> b, args |-> <<>>]
  ELSE LET cast == IF withCast /\ isBuffer(values[1]) THEN "::bytea" ELSE ""
           b1 == [b EXCEPT !.index = b.index + 1,
                           !.parameters = Append(b.parameters, Scalar(values[1]))]
           rest == mapValues(b1, Tail(values), withCast)
       IN [b |-> rest.b, args |-> <<Ph(b.index + 1, cast)>> \o rest.args]

mapValue(b, values) == mapValues(b, values, FALSE)
mapValueCast(b, values) == mapValues(b, values, TRUE)

pushWhere(b, clause) == [b EXCEPT !.where = Append(b.where, clause)]

\* the names every object inherits from Object.prototype
ObjectPrototype ==
  {"constructor", "__proto__", "hasOwnProperty", "isPrototypeOf",
   "propertyIsEnumerable", "toLocaleString", "toString", "valueOf",
   "__defineGetter__", "__defineSetter__", "__lookupGetter__",
   "__lookupSetter__"}

\* fields[field][isArrayKey]: a TypeError when fields[field] is undefined;
\* an inherited member is no field definition and has no such property
noField(fields, field) ==
  field \notin DOMAIN fields /\ field \notin ObjectPrototype
fieldIsArray(fields, field) ==
  IF field \in DOMAIN fields THEN fields[field].isArray ELSE FALSE

\* "id" in ($1, ..., $n), then the ids appended to the parameters
findIds(b, ids) ==
  IF ~ids.given THEN b
  ELSE LET n == Len(ids.list)
       IN [b EXCEPT
             !.index = b.index + n,
             !.where = Append(b.where, Clause("in", primaryKey,
                          [i \in 1..n |-> Ph(b.index + i, "")])),
             !.parameters = b.parameters \o MapSeq(Scalar, ids.list)]

\* one turn of the loop over options.match
findMatch(b, e) ==
  IF noField(recordTypes, e.f) THEN [b EXCEPT !.err = "TypeError"]
  ELSE IF ~fieldIsArray(recordTypes, e.f) THEN
    IF e.v.arr
      THEN LET m == mapValue(b, e.v.items)
           IN pushWhere(m.b, Clause("in", e.f, m.args))
      ELSE pushWhere([b EXCEPT !.index = b.index + 1,
                               !.parameters = Append(b.parameters, e.v)],
                     Clause("=", e.f, <<Ph(b.index + 1, "")>>))
  ELSE LET m == mapValueCast(b, e.v.items)
       IN pushWhere(m.b, Clause("@>", e.f, m.args))

\* one turn of the loop over options.contains: the text holds the bare
\* number index after ilike, and the field is not looked up
findContains(b, e) ==
  pushWhere([b EXCEPT !.index = b.index + 1,
                      !.parameters = Append(b.parameters,
                         Scalar(Str(<<"%">> \o toString(e.v) \o <<"%">>)))],
            Clause("ilike", e.f, <<Bare(b.index + 1)>>))

\* one turn of the loop over options.exists
findExists(b, e) ==
  IF noField(recordTypes, e.f) THEN [b EXCEPT !.err = "TypeError"]
  ELSE IF ~fieldIsArray(recordTypes, e.f)
    THEN pushWhere(b, Clause(IF e.v THEN "is not null" ELSE "is null", e.f, <<>>))
    ELSE pushWhere(b, Clause(IF e.v THEN "len > 0" ELSE "len = 0", e.f, <<>>))

\* one bound of a range: nothing when the bound is null or undefined
rangeBound(b, op, field, bound) ==
  IF bound.k \in {"null", "undef"} THEN b
  ELSE pushWhere([b EXCEPT !.index = b.index + 1,
                           !.parameters = Append(b.parameters, Scalar(bound))],
                 Clause(op, field, <<Ph(b.index + 1, "")>>))

\* one turn of the loop over options.range
findRange(b, e) ==
  IF noField(recordTypes, e.f) THEN [b EXCEPT !.err = "TypeError"]
  ELSE IF ~fieldIsArray(recordTypes, e.f)
    THEN rangeBound(rangeBound(b, ">=", e.f, e.lo), "<=", e.f, e.hi)
    ELSE rangeBound(rangeBound(b, "len >=", e.f, e.lo), "len <=", e.f, e.hi)

\* a for..in loop over an option: the turns in key order, ended by the first
\* exception
RECURSIVE forIn(_, _, _)
forIn(Step(_, _), b, entries) ==
  IF entries = <<>> \/ b.err # "" THEN b
  ELSE forIn(Step, Step(b, entries[1]), Tail(entries))

\* the loop over options.sort: the ORDER BY items, or the exception
RECURSIVE findSort(_, _)
findSort(acc, entries) ==
  IF entries = <<>> \/ acc.err # "" THEN acc
  ELSE IF noField(recordTypes, entries[1].f)
    THEN [acc EXCEPT !.err = "TypeError"]
  ELSE findSort([acc EXCEPT !.order = Append(acc.order,
                   [field |-> entries[1].f,
                    byLength |-> fieldIsArray(recordTypes, entries[1].f),
                    asc |-> entries[1].v])],
                Tail(entries))

\* the select list: '*' or the quoted column names
selectColumns(options) ==
  LET cols == MapSeq(LAMBDA e : e.f, options.fields)
      named(c) == \E i \in 1..Len(cols) : cols[i] = c
  IN IF cols = <<>> THEN <<"*">>
     ELSE IF \A i \in 1..Len(options.fields) : options.fields[i].v
       THEN <<primaryKey>> \o cols
     ELSE <<primaryKey>> \o SelectSeq(orderedFields, LAMBDA f : ~named(f))

Stmt0 ==
  [kind |-> "", columns |-> <<>>, where |-> <<>>, order |-> <<>>,
   limit |-> 0, offset |-> 0, values |-> <<>>, set |-> <<>>,
   returning |-> FALSE, parameters |-> <<>>]

\* mutant: the count statement is built without the WHERE clause
countStatementNoWhere(where, parameters) ==
  [Stmt0 EXCEPT !.kind = "count", !.where = <<>>,
                !.parameters = parameters]

\* select count(*) from "type" ${where}
countStatement(where, parameters) ==
  [Stmt0 EXCEPT !.kind = "count", !.where = where,
                !.parameters = parameters]

\* ${selectColumns} ${where} ${order} ${slice}
findRecords(options, where, order, parameters) ==
  [Stmt0 EXCEPT !.kind = "select", !.columns = selectColumns(options),
                !.where = where, !.order = order,
                !.limit = options.limit, !.offset = options.offset,
                !.parameters = parameters]

\* the whole statement-building pass of find: the exception it ends with, or
\* the two statements it hands to client.query, in the order it does
buildFind(ids, options) ==
  LET b1 == findIds(Build0, ids)
      b2 == forIn(findMatch, b1, options.match)
      b3 == forIn(findContains, b2, options.contains)
      b4 == forIn(findExists, b3, options.exists)
      b5 == forIn(findRange, b4, options.range)
      s == IF b5.err # "" THEN [order |-> <<>>, err |-> b5.err]
           ELSE findSort([order |-> <<>>, err |-> ""], options.sort)
  IN IF s.err # "" THEN [err |-> s.err, statements |-> <<>>]
     ELSE [err |-> "",
           statements |-> <<findRecords(options, b5.where, s.order, b5.parameters),
                            countStatement(b5.where, b5.parameters)>>]

\* ----------------------------------------------------------------- store
\* What PostgreSQL does with a statement of the adapter.  The table has the
\* key column and one column per field (connect adds them); an array field
\* is an array column, not null, default '{}'.
tableColumns == {primaryKey} \cup DOMAIN recordTypes

\* postgresTypeMap.get(type): undefined for a type that is no key of the map
postgresTypeMap(type) ==
  CASE type = "String" -> "text"
    [] type = "Number" -> "double precision"
    [] type = "Boolean" -> "boolean"
    [] type = "Date" -> "timestamp"
    [] type = "Object" -> "jsonb"
    [] type = "Buffer" -> "bytea"
    [] OTHER -> "undefined"

\* the type of a column that holds the key of another record
foreignKeyType ==
  CASE primaryKeyType = "smallserial" -> "smallint"
    [] primaryKeyType = "serial" -> "integer"
    [] primaryKeyType = "bigserial" -> "bigint"
    [] OTHER -> primaryKeyType

\* the type connect gives a column: the key column's, the mapped type of a
\* field that has a type, the foreign key type of a field that has none (a
\* field definition without type holds "")
postgresType(column) ==
  IF column = primaryKey THEN primaryKeyType
  ELSE IF recordTypes[column].type = "" THEN foreignKeyType
  ELSE postgresTypeMap(recordTypes[column].type)

isArrayColumn(column) == column # primaryKey /\ recordTypes[column].isArray

isDecimal(chars) ==
  /\ chars # <<>>
  /\ \A i \in 1..Len(chars) : isDigit(chars[i])

\* whether the store reads a parameter as a value of the type: parameters
\* travel as text
readable(type, v) ==
  CASE v.k = "null" -> TRUE
    [] type = "text" -> v.k \in {"str", "num"}
    [] type \in {"double precision", "serial", "integer", "smallserial",
                 "bigserial", "smallint", "bigint"} ->
         v.k = "num" \/ (v.k = "str" /\ isDecimal(v.s))
    [] type = "bytea" -> v.k \in {"buf", "str"}
    [] OTHER -> TRUE

\* the value the store reads, as the driver gives it back in a row
stored(type, v) ==
  CASE v.k = "null" -> Null
    [] type = "text" -> Str(toString(v))
    [] type \in {"double precision", "serial", "integer", "smallserial",
                 "bigserial", "smallint", "bigint"} ->
         IF v.k = "num" THEN v ELSE parseInt(v.s)
    [] type = "bytea" ->
         IF v.k = "buf" THEN v ELSE Buf(fromHex(slice2(v.s)))
    [] OTHER -> v

\* the parameter an argument of the text stands for
argCell(stmt, arg) ==
  IF arg.dollar THEN stmt.parameters[arg.n] ELSE Scalar(Num(arg.n))

Alphabet == <<"%", "0", "1", "2", "3", "4", "5", "6", "7", "8", "9",
              "a", "b", "g", "h", "n", "x", "y">>
charRank(c) == IF \E i \in 1..Len(Alphabet) : Alphabet[i] = c
               THEN CHOOSE i \in 1..Len(Alphabet) : Alphabet[i] = c
               ELSE 0

RECURSIVE textLess(_, _)
textLess(a, b) ==
  IF b = <<>> THEN FALSE
  ELSE IF a = <<>> THEN TRUE
  ELSE IF charRank(a[1]) # charRank(b[1]) THEN charRank(a[1]) < charRank(b[1])
  ELSE textLess(Tail(a), Tail(b))

\* v < w for two stored values of one column; null sorts after every value
valueLess(v, w) ==
  CASE v.k = "null" -> FALSE
    [] w.k = "null" -> TRUE
    [] v.k = "num" /\ w.k = "num" -> v.n < w.n
    [] v.k = "str" /\ w.k = "str" -> textLess(v.s, w.s)
    [] OTHER -> FALSE

isSubstring(part, whole) ==
  \E i \in 0..(Len(whole) - Len(part)) :
    SubSeq(whole, i + 1, i + Len(part)) = part

\* the text between the wildcards of a %...% pattern
patternCore(chars) ==
  IF Len(chars) >= 2 /\ chars[1] = "%" /\ chars[Len(chars)] = "%"
  THEN SubSeq(chars, 2, Len(chars) - 1) ELSE chars

elementType(clause) ==
  IF clause.op \in {"len >=", "len <="} THEN "integer"
  ELSE postgresType(clause.field)

\* the error a conjunct of a WHERE clause is refused with when the statement
\* is parsed, "" when it is accepted
clauseParseError(clause) ==
  CASE clause.field \notin tableColumns -> "42703"
    [] clause.op = "in" /\ clause.args = <<>> -> "42601"
    [] clause.op = "@>" /\ clause.args = <<>> -> "42P18"
    [] clause.op = "ilike" /\ \E i \in 1..Len(clause.args) :
         ~clause.args[i].dollar -> "42883"
    [] OTHER -> ""

\* whether every parameter of a conjunct reads as a value of its column
clauseReadable(stmt, clause) ==
  \A i \in 1..Len(clause.args) :
    LET cell == argCell(stmt, clause.args[i])
    IN ~cell.arr /\ readable(elementType(clause), cell.items[1])

\* whether a row satisfies a conjunct
clauseHolds(stmt, clause, row) ==
  LET type == elementType(clause)
      here == row[clause.field]
      arg(i) == stored(type, argCell(stmt, clause.args[i]).items[1])
      one == here.items[1]
  IN CASE clause.op = "in" ->
            one.k # "null" /\ \E i \in 1..Len(clause.args) : arg(i) = one
       [] clause.op = "=" -> one.k # "null" /\ arg(1) = one
       [] clause.op = "@>" ->
            \A i \in 1..Len(clause.args) :
              \E j \in 1..Len(here.items) : here.items[j] = arg(i)
       [] clause.op = "ilike" ->
            one.k = "str" /\ isSubstring(patternCore(arg(1).s), one.s)
       [] clause.op = "is not null" -> one.k # "null"
       [] clause.op = "is null" -> one.k = "null"
       [] clause.op = "len > 0" -> Len(here.items) > 0
       [] clause.op = "len = 0" -> Len(here.items) = 0
       [] clause.op = ">=" ->
            one.k # "null" /\ arg(1).k # "null" /\ ~valueLess(one, arg(1))
       [] clause.op = "<=" ->
            one.k # "null" /\ arg(1).k # "null" /\ ~valueLess(arg(1), one)
       [] clause.op = "len >=" -> arg(1).k # "null" /\ Len(here.items) >= arg(1).n
       [] clause.op = "len <=" -> arg(1).k # "null" /\ Len(here.items) <= arg(1).n
       [] OTHER -> FALSE

whereHolds(stmt, row) ==
  \A i \in 1..Len(stmt.where) : clauseHolds(stmt, stmt.where[i], row)

firstError(codes) ==
  IF \E i \in 1..Len(codes) : codes[i] # ""
  THEN codes[CHOOSE i \in 1..Len(codes) :
               codes[i] # "" /\ \A j \in 1..(i - 1) : codes[j] = ""]
  ELSE ""

\* every argument of a statement's text, in text order
RECURSIVE flatten(_)
flatten(seqs) == IF seqs = <<>> THEN <<>> ELSE seqs[1] \o flatten(Tail(seqs))

statementArgs(stmt) ==
  flatten(stmt.values)
  \o flatten(MapSeq(LAMBDA c : c.args, stmt.set))
  \o flatten(MapSeq(LAMBDA c : c.args, stmt.where))

\* the text must use exactly the parameters that are bound
bindError(stmt) ==
  LET args == SelectSeq(statementArgs(stmt), LAMBDA a : a.dollar)
  IN IF {args[i].n : i \in 1..Len(args)} = 1..Len(stmt.parameters)
     THEN "" ELSE "08P01"

\* the error the WHERE clause is refused with before any value is bound: a
\* syntax error wherever it stands, else the first conjunct's that has one
whereParseError(stmt) ==
  LET codes == MapSeq(clauseParseError, stmt.where)
  IN IF \E i \in 1..Len(codes) : codes[i] = "42601" THEN "42601"
     ELSE firstError(codes)

whereError(stmt) ==
  LET parse == whereParseError(stmt)
  IN IF parse # "" THEN parse
     ELSE IF bindError(stmt) # "" THEN bindError(stmt)
     ELSE IF \E i \in 1..Len(stmt.where) : ~clauseReadable(stmt, stmt.where[i])
       THEN "22P02"
     ELSE ""

Response(code, rows, rowCount) ==
  [error |-> code, rows |-> rows, rowCount |-> rowCount]

\* ---- select and count
\* whether row r comes strictly before row q under the ORDER BY items
RECURSIVE rowBefore(_, _, _)
rowBefore(order, r, q) ==
  IF order = <<>> THEN FALSE
  ELSE LET o == order[1]
           kr == IF o.byLength THEN Num(Len(r[o.field].items))
                 ELSE r[o.field].items[1]
           kq == IF o.byLength THEN Num(Len(q[o.field].items))
                 ELSE q[o.field].items[1]
           lt == IF o.asc THEN valueLess(kr, kq) ELSE valueLess(kq, kr)
           gt == IF o.asc THEN valueLess(kq, kr) ELSE valueLess(kr, kq)
       IN IF lt THEN TRUE ELSE IF gt THEN FALSE
          ELSE rowBefore(Tail(order), r, q)

\* the orders in which the store may give the rows: any order that agrees
\* with ORDER BY
rowOrders(rows, order) ==
  LET n == Cardinality(rows)
  IN {q \in [1..n -> rows] :
        /\ \A i, j \in 1..n : i # j => q[i] # q[j]
        /\ \A i, j \in 1..n : i < j => ~rowBefore(order, q[j], q[i])}

\* OFFSET and LIMIT; 0 stands for an absent option
window(q, limit, offset) ==
  LET from == IF offset > Len(q) THEN Len(q) + 1 ELSE offset + 1
      rest == SubSeq(q, from, Len(q))
  IN IF limit > 0 /\ limit < Len(rest) THEN SubSeq(rest, 1, limit) ELSE rest

project(columns, row) ==
  IF columns = <<"*">> THEN row
  ELSE [c \in {columns[i] : i \in 1..Len(columns)} |-> row[c]]

\* the responses the store may give to a select
execSelect(stmt) ==
  LET unknown == stmt.columns # <<"*">> /\
                 \E i \in 1..Len(stmt.columns) : stmt.columns[i] \notin tableColumns
      unsorted == \E i \in 1..Len(stmt.order) :
                    stmt.order[i].field \notin tableColumns
      parse == whereParseError(stmt)
      code == CASE parse = "42601" -> parse
                [] unknown -> "42703"
                [] parse # "" -> parse
                [] unsorted -> "42703"
                [] OTHER -> whereError(stmt)
  IN IF code # "" THEN {Response(code, <<>>, 0)}
     ELSE {Response("", MapSeq(LAMBDA r : project(stmt.columns, r),
                               window(q, stmt.limit, stmt.offset)),
                    Len(window(q, stmt.limit, stmt.offset))) :
             q \in rowOrders({r \in table : whereHolds(stmt, r)}, stmt.order)}

\* count(*) comes back as one row holding the number in decimal text
execCount(stmt) ==
  IF whereError(stmt) # "" THEN Response(whereError(stmt), <<>>, 0)
  ELSE Response("",
         <<[c \in {"count"} |->
              Scalar(Str(digits(Cardinality({r \in table : whereHolds(stmt, r)}))))]>>,
         1)

\* ---- insert, update, delete
\* the error a parameter is refused with as the value of a column
cellError(column, cell) ==
  IF isArrayColumn(column)
  THEN IF ~cell.arr THEN (IF cell.items[1].k = "null" THEN "" ELSE "22P02")
       ELSE IF \A i \in 1..Len(cell.items) :
                 readable(postgresType(column), cell.items[i])
         THEN "" ELSE "22P02"
  ELSE IF cell.arr THEN "22P02"
       ELSE IF readable(postgresType(column), cell.items[1]) THEN "" ELSE "22P02"

storedCell(column, cell) ==
  IF cell.arr
  THEN Array(MapSeq(LAMBDA v : stored(postgresType(column), v), cell.items))
  ELSE Scalar(stored(postgresType(column), cell.items[1]))

isNullCell(cell) == ~cell.arr /\ cell.items[1].k \in {"null", "undef"}

position(seq, x) == CHOOSE i \in 1..Len(seq) : seq[i] = x
inSeq(seq, x) == \E i \in 1..Len(seq) : seq[i] = x

\* the rows of an insert put into the table one after the other; the
\* sequence of the key column advances for every row that takes its
\* default, also when a later row is refused
RECURSIVE insertRows(_, _, _, _, _)
insertRows(stmt, tuples, tbl, ser, keys) ==
  IF tuples = <<>>
  THEN [error |-> "", table |-> tbl, serial |-> ser, keys |-> keys]
  ELSE LET given(c) == inSeq(stmt.columns, c)
           param(c) == argCell(stmt, tuples[1][position(stmt.columns, c)])
           takesSerial == ~given(primaryKey) /\ primaryKeyType = "serial"
           ser1 == IF takesSerial THEN ser + 1 ELSE ser
           row == [c \in tableColumns |->
                     IF given(c) THEN storedCell(c, param(c))
                     ELSE IF c = primaryKey
                       THEN (IF takesSerial THEN Scalar(Num(ser1)) ELSE Scalar(Null))
                     ELSE IF isArrayColumn(c) THEN Array(<<>>)
                     ELSE Scalar(Null)]
           nulls == \E c \in tableColumns :
                      (c = primaryKey \/ isArrayColumn(c)) /\ isNullCell(row[c])
           taken == \E r \in tbl : r[primaryKey] = row[primaryKey]
       IN IF nulls
            THEN [error |-> "23502", table |-> tbl, serial |-> ser1, keys |-> keys]
          ELSE IF taken
            THEN [error |-> "23505", table |-> tbl, serial |-> ser1, keys |-> keys]
          ELSE insertRows(stmt, Tail(tuples), tbl \cup {row}, ser1,
                          Append(keys, [c \in {primaryKey} |-> row[primaryKey]]))

\* [response, table, serial] after an insert
execInsert(stmt) ==
  LET n == Len(stmt.columns)
      parse == IF \E i \in 1..n : stmt.columns[i] \notin tableColumns THEN "42703"
               ELSE IF \E t \in 1..Len(stmt.values) : Len(stmt.values[t]) # n
                 THEN "42601"
               ELSE bindError(stmt)
      values == IF parse # "" THEN parse
                ELSE firstError(flatten(
                       [t \in 1..Len(stmt.values) |->
                          [i \in 1..n |->
                             cellError(stmt.columns[i],
                                       argCell(stmt, stmt.values[t][i]))]]))
      done == insertRows(stmt, stmt.values, table, serial, <<>>)
  IN IF values # ""
       THEN [response |-> Response(values, <<>>, 0), table |-> table, serial |-> serial]
     ELSE IF done.error # ""
       THEN [response |-> Response(done.error, <<>>, 0),
             table |-> table, serial |-> done.serial]
     ELSE [response |-> Response("", IF stmt.returning THEN done.keys ELSE <<>>,
                                 Len(stmt.values)),
           table |-> done.table, serial |-> done.serial]

\* the error an assignment of an update is refused with when it is parsed
setParseError(stmt, i) ==
  LET c == stmt.set[i]
  IN CASE c.field \notin tableColumns -> "42703"
       [] \E j \in 1..(i - 1) : stmt.set[j].field = c.field -> "42601"
       [] c.op # "=" /\ ~isArrayColumn(c.field) -> "42883"
       [] OTHER -> ""

setValueError(stmt, c) ==
  CASE c.op = "=" -> cellError(c.field, argCell(stmt, c.args[1]))
    [] c.op = "array_cat" ->
         IF argCell(stmt, c.args[1]).arr
         THEN cellError(c.field, argCell(stmt, c.args[1])) ELSE "22P02"
    [] OTHER ->
         IF \A i \in 1..Len(c.args) :
              /\ ~argCell(stmt, c.args[i]).arr
              /\ readable(postgresType(c.field), argCell(stmt, c.args[i]).items[1])
         THEN "" ELSE "22P02"

\* the value an assignment gives the column of a row
assigned(stmt, c, row) ==
  LET type == postgresType(c.field)
      old == row[c.field].items
      arg(i) == stored(type, argCell(stmt, c.args[i]).items[1])
  IN CASE c.op = "=" -> storedCell(c.field, argCell(stmt, c.args[1]))
       [] c.op = "array_cat" ->
            Array(old \o storedCell(c.field, argCell(stmt, c.args[1])).items)
       [] c.op = "array_append" -> Array(Append(old, arg(1)))
       [] c.op = "array_remove" -> Array(SelectSeq(old, LAMBDA x : x # arg(1)))
       [] OTHER ->
            Array(SelectSeq(old, LAMBDA x :
                    \A i \in 1..Len(c.args) : x # arg(i)))

updatedRow(stmt, row) ==
  [c \in tableColumns |->
     IF \E i \in 1..Len(stmt.set) : stmt.set[i].field = c
     THEN assigned(stmt, stmt.set[CHOOSE i \in 1..Len(stmt.set) :
                                    stmt.set[i].field = c], row)
     ELSE row[c]]

\* [response, table, serial] after an update
execUpdate(stmt) ==
  LET syntax == IF stmt.set = <<>> THEN "42601"
                ELSE IF \E i \in 1..Len(stmt.set) :
                          stmt.set[i].op = "array_filter" /\ stmt.set[i].args = <<>>
                  THEN "42601"
                ELSE ""
      parse == IF syntax # "" THEN syntax
               ELSE firstError([i \in 1..Len(stmt.set) |-> setParseError(stmt, i)])
      where == IF parse # "" THEN parse ELSE whereError(stmt)
      values == IF where # "" THEN where
                ELSE firstError(MapSeq(LAMBDA c : setValueError(stmt, c), stmt.set))
      hit == {r \in table : whereHolds(stmt, r)}
      nulls == \E r \in hit : \E c \in tableColumns :
                 isArrayColumn(c) /\ isNullCell(updatedRow(stmt, r)[c])
  IN IF values # ""
       THEN [response |-> Response(values, <<>>, 0), table |-> table, serial |-> serial]
     ELSE IF nulls
       THEN [response |-> Response("23502", <<>>, 0), table |-> table, serial |-> serial]
     ELSE [response |-> Response("", <<>>, Cardinality(hit)),
           table |-> (table \ hit) \cup {updatedRow(stmt, r) : r \in hit},
           serial |-> serial]

\* [response, table, serial] after a delete
execDelete(stmt) ==
  LET hit == {r \in table : whereHolds(stmt, r)}
  IN IF whereError(stmt) # ""
       THEN [response |-> Response(whereError(stmt), <<>>, 0),
             table |-> table, serial |-> serial]
     ELSE [response |-> Response("", <<>>, Cardinality(hit)),
           table |-> table \ hit, serial |-> serial]

\* select * from information_schema.columns: a row for the key column and
\* for every column of a field; the connect that made the adapter's first
\* connection has added them all
execColumns(stmt) ==
  [response |-> Response("", [i \in 1..(Len(orderedFields) + 1) |->
                                 [column_name |->
                                    IF i = 1 THEN primaryKey
                                    ELSE orderedFields[i - 1]]],
                         Len(orderedFields) + 1),
   table |-> table, serial |-> serial]

\* alter table add column: the table has the column already
execAlter(stmt) ==
  [response |-> Response(IF stmt.columns[1] \in tableColumns THEN "42701" ELSE "",
                         <<>>, 0),
   table |-> table, serial |-> serial]

\* the outcomes [response, table, serial] the store may give a statement:
\* 'set' and 'create table if not exists' on a table that exists change
\* nothing
execute(stmt) ==
  CASE stmt.kind = "select" ->
         {[response |-> r, table |-> table, serial |-> serial] : r \in execSelect(stmt)}
    [] stmt.kind = "count" ->
         {[response |-> execCount(stmt), table |-> table, serial |-> serial]}
    [] stmt.kind = "insert" -> {execInsert(stmt)}
    [] stmt.kind = "update" -> {execUpdate(stmt)}
    [] stmt.kind = "delete" -> {execDelete(stmt)}
    [] stmt.kind = "columns" -> {execColumns(stmt)}
    [] stmt.kind = "alter" -> {execAlter(stmt)}
    [] OTHER ->
         {[response |-> Response("", <<>>, 0), table |-> table, serial |-> serial]}

\* ---------------------------------------------------------------- create
\* the placeholders of the k-th row tuple of an insert of width columns
rowTuple(k, width) == [i \in 1..width |-> Ph((k - 1) * width + i, "")]

\* the insert statement for the records inputRecord gave
createRecords(records) ==
  LET hasPrimaryKey == \A i \in 1..Len(records) : primaryKey \in DOMAIN records[i]
      columns == (IF hasPrimaryKey THEN <<primaryKey>> ELSE <<>>) \o orderedFields
  IN [Stmt0 EXCEPT
        !.kind = "insert",
        !.columns = columns,
        !.values = [k \in 1..Len(records) |-> rowTuple(k, Len(columns))],
        !.returning = ~hasPrimaryKey,
        !.parameters = flatten([k \in 1..Len(records) |->
                          [i \in 1..Len(columns) |-> records[k][columns[i]]]])]

\* ---------------------------------------------------------------- update
Update0 == [index |-> 0, parameters |-> <<>>, set |-> <<>>]

pushSet(b, op, field, args, params) ==
  [index |-> b.index + Len(params),
   parameters |-> b.parameters \o params,
   set |-> Append(b.set, Clause(op, field, args))]

\* one turn of the loop over update.replace
updateReplace(b, e) ==
  pushSet(b, "=", e.f, <<Ph(b.index + 1, "")>>,
          <<IF e.v.arr THEN Array(MapSeq(inputValue, e.v.items)) ELSE e.v>>)

\* one turn of the loop over update.push
updatePush(b, e) ==
  IF e.v.arr
  THEN pushSet(b, "array_cat", e.f, <<Ph(b.index + 1, "")>>,
               <<Array(MapSeq(inputValue, e.v.items))>>)
  ELSE pushSet(b, "array_append", e.f, <<Ph(b.index + 1, "")>>, <<e.v>>)

\* mutant: a pulled sequence is bound as one parameter while its elements
\* keep a placeholder each
updatePullNested(b, e) ==
  IF e.v.arr
  THEN pushSet(b, "array_filter", e.f,
               [i \in 1..Len(e.v.items) |-> Ph(b.index + i, "")], <<e.v>>)
  ELSE pushSet(b, "array_remove", e.f, <<Ph(b.index + 1, "")>>, <<e.v>>)

\* one turn of the loop over update.pull
updatePull(b, e) ==
  IF e.v.arr
  THEN pushSet(b, "array_filter", e.f,
               [i \in 1..Len(e.v.items) |-> Ph(b.index + i, "")],
               MapSeq(Scalar, e.v.items))
  ELSE pushSet(b, "array_remove", e.f, <<Ph(b.index + 1, "")>>, <<e.v>>)

RECURSIVE forEach(_, _, _)
forEach(Step(_, _), b, entries) ==
  IF entries = <<>> THEN b
  ELSE forEach(Step, Step(b, entries[1]), Tail(entries))

\* the statement of one Update Specification
updateRecord(update) ==
  LET b == forEach(updatePull,
             forEach(updatePush,
               forEach(updateReplace, Update0, update.replace),
               update.push),
             update.pull)
  IN [Stmt0 EXCEPT
        !.kind = "update",
        !.set = b.set,
        !.where = <<Clause("=", primaryKey, <<Ph(b.index + 1, "")>>)>>,
        !.parameters = Append(b.parameters, update.id)]

\* ---------------------------------------------------------------- delete
deleteRecords(ids) ==
  IF ids.given
  THEN [Stmt0 EXCEPT
          !.kind = "delete",
            !.where = <<Clause("in", primaryKey,
                             [i \in 1..Len(ids.list) |-> Ph(i, "")])>>,
          !.parameters = MapSeq(Scalar, ids.list)]
  ELSE [Stmt0 EXCEPT !.kind = "delete"]

GeneratedKeys == {Str(<<"g">>), Str(<<"h">>)}

\* ------------------------------------------------------------ the calls
NoValue == <<>>

\* A call the application has made: the method, its arguments, the state of
\* its promise (threw when the method ended with an exception and returned
\* none), what it settled with, the statements it handed to client.query
\* with the promise of each one's callback, the table before the first and
\* after the latest of them ran, whether this.client was there when the
\* method was called, and whether no statement of another call, on another
\* connection, has changed the table between two statements of this one.
Call0 ==
  [running |-> "none", input |-> NoValue, status |-> "idle",
   result |-> NoValue, sent |-> <<>>, slots |-> <<>>, before |-> {},
   after |-> {}, connected |-> TRUE, alone |-> TRUE]

Callers == 1..MaxCalls

\* The connections pg hands out are numbered in the order it makes them;
\* 0 is the one the adapter's first connect was given.
MaxClients == MaxTx + MaxConnects
Clients == 0..MaxClients

\* after connect: this.client and this.done are those of connection 0 (own
\* tells whether this.client is still there), connect was not called again
\* (connects counts the calls), pg has made no other connection (count).  pool[c] is the
\* state of connection c: open, ending once pg.end() was called, closed when
\* it is gone; released[c] counts the calls of the done function of c;
\* idle[c] tells whether the pool holds c to hand it out again; ended
\* counts the calls of pg.end().
Conn0 ==
  [client |-> 0, own |-> TRUE, done |-> 0, connects |-> 0, count |-> 0,
   ended |-> 0,
   pool |-> [c \in Clients |-> "open"],
   released |-> [c \in Clients |-> 0],
   idle |-> [c \in Clients |-> FALSE]]

Idle ==
  /\ calls = [c \in Callers |-> Call0]
  /\ queue = <<>>
  /\ conn = Conn0
  /\ made = 0

\* a statement on connection client: the call and the place in the call it
\* belongs to, 0 when the application has let go of that call
Queued(client, c, i, statement) ==
  [client |-> client, call |-> c, i |-> i, statement |-> statement]

NoError == [name |-> "", code |-> "", sqlState |-> "", statement |-> 0]
Pending == [state |-> "pending", value |-> 0, error |-> NoError,
            response |-> Response("", <<>>, 0)]

\* the error object the driver hands to a callback: the JavaScript client
\* gives the code as error.code, the native bindings as error.sqlState
DriverError(code, native, statement) ==
  [name |-> "error",
   code |-> IF native THEN "" ELSE code,
   sqlState |-> IF native THEN code ELSE "",
   statement |-> statement]

\* the error of a statement whose connection ended under it: it has no code
ConnectionError(statement) ==
  [name |-> "Error", code |-> "", sqlState |-> "", statement |-> statement]

ConflictError ==
  [name |-> "ConflictError", code |-> "", sqlState |-> "", statement |-> 0]

\* client.query where this.client is undefined
TypeError ==
  [name |-> "TypeError", code |-> "", sqlState |-> "", statement |-> 0]

free == {c \in Callers : calls[c].status = "idle"}
slot == CHOOSE c \in free : \A d \in free : c <= d

\* the method ends without touching the connection
settle(method, arguments, how, value) ==
  /\ free # {}
  /\ made < MaxMade
  /\ made' = made + 1
  /\ calls' = [calls EXCEPT ![slot] =
       [running |-> method, input |-> arguments, status |-> how,
        result |-> value, sent |-> <<>>, slots |-> <<>>, before |-> table,
        after |-> table, connected |-> conn.own, alone |-> TRUE]]
  /\ UNCHANGED <<configVars, txVars, storeVars, codecVars, queue, conn>>

\* the method hands its statements to client.query, each inside the executor
\* of a promise, and returns its promise; without a client the first
\* client.query is a TypeError, which rejects the promise
issue(method, arguments, statements) ==
  IF ~conn.own THEN settle(method, arguments, "rejected", TypeError)
  ELSE
    /\ free # {}
    /\ made < MaxMade
    /\ made' = made + 1
    /\ Len(queue) + Len(statements) <= MaxQueue
    /\ calls' = [calls EXCEPT ![slot] =
         [running |-> method, input |-> arguments, status |-> "pending",
          result |-> NoValue, sent |-> statements,
          slots |-> [i \in 1..Len(statements) |-> Pending],
          before |-> table, after |-> table, connected |-> TRUE,
          alone |-> TRUE]]
    /\ queue' = queue \o [i \in 1..Len(statements) |->
                             Queued(conn.client, slot, i, statements[i])]
    /\ UNCHANGED <<configVars, txVars, storeVars, codecVars, conn>>

\* what the base Adapter's methods resolve with
superFind == [records |-> <<>>, count |-> Undef]
superCreate == <<>>
superDelete == 0

\* mutant: only an absent id list is told from a given one
noOpNever(ids) == FALSE

\* ids && !ids.length
noOp(ids) == ids.given /\ Len(ids.list) = 0

findWith(ids, options) ==
  LET built == buildFind(ids, options)
      arguments == [ids |-> ids, options |-> options]
  IN IF noOp(ids) THEN settle("find", arguments, "resolved", superFind)
     ELSE IF built.err # "" THEN settle("find", arguments, "threw", built.err)
     ELSE issue("find", arguments, built.statements)

\* records.map(inputRecord) runs before the promise is made: an exception
\* of inputRecord is thrown by create
createWith(records, generated) ==
  LET encoded == [i \in 1..Len(records) |-> inputRecord(records[i], generated[i])]
      arguments == [records |-> records, encoded |-> encoded]
  IN IF Len(records) = 0
     THEN settle("create", [records |-> records, encoded |-> <<>>],
                 "resolved", superCreate)
     ELSE IF \E i \in 1..Len(encoded) : isThrown(encoded[i])
       THEN settle("create", [records |-> records, encoded |-> <<>>],
                   "threw", "TypeError")
     ELSE issue("create", arguments, <<createRecords(encoded)>>)

updateWith(updates) ==
  IF updates = <<>>
  THEN settle("update", [updates |-> updates], "resolved", 0)
  ELSE issue("update", [updates |-> updates], MapSeq(updateRecord, updates))

deleteWith(ids) ==
  IF noOp(ids) THEN settle("delete", [ids |-> ids], "resolved", superDelete)
  ELSE issue("delete", [ids |-> ids], <<deleteRecords(ids)>>)

\* ---- the callbacks
\* the callback of find's, create's and delete's promises
callback(error, response) ==
  IF error.name # ""
  THEN [state |-> "rejected", value |-> 0, error |-> error, response |-> response]
  ELSE [state |-> "resolved", value |-> response.rowCount, error |-> NoError,
        response |-> response]

\* mutant: an undefined column is an error like any other
updateCallbackStrict(error, response) == callback(error, response)

\* the callback of one statement of update
updateCallback(error, response) ==
  IF error.name # ""
  THEN IF getCode(error) = "42703"
       THEN [state |-> "resolved", value |-> 0, error |-> NoError,
             response |-> response]
       ELSE [state |-> "rejected", value |-> 0, error |-> error,
             response |-> response]
  ELSE [state |-> "resolved", value |-> response.rowCount, error |-> NoError,
        response |-> response]

\* mutant: only error.code is looked at
createErrorCodeOnly(error) ==
  IF error.code = "23505" THEN ConflictError ELSE error

\* what create rejects with
createError(error) ==
  IF getCode(error) = "23505" THEN ConflictError ELSE error

\* records.map(outputRecord): whether an exception ended it, and the records
mapped(out) ==
  [threw |-> \E i \in 1..Len(out) : isThrown(out[i]), value |-> out]

outputRecords(records) == mapped(MapSeq(outputRecord, records))

\* mutant: the keys the store assigned are not written back
createdIgnoreRows(encoded, statement, response) == outputRecords(encoded)

\* the record create's callback leaves at position i: the key of the i-th
\* row written into it, undefined when the row has none
keyedRecord(record, row) ==
  [f \in DOMAIN record \cup {primaryKey} |->
     IF f # primaryKey THEN record[f]
     ELSE IF primaryKey \in DOMAIN row THEN row[primaryKey]
     ELSE Scalar(Undef)]

\* what create resolves with: the keys the store gave back written into the
\* records by position, then outputRecord.  A row beyond the last record
\* has no record to be written into, and the callback ends with a TypeError
\* before outputRecord is called.
created(encoded, statement, response) ==
  IF statement.returning /\ Len(response.rows) > Len(encoded)
    THEN [threw |-> TRUE, value |-> <<>>]
  ELSE outputRecords([i \in 1..Len(encoded) |->
                        IF statement.returning /\ i <= Len(response.rows)
                        THEN keyedRecord(encoded[i], response.rows[i])
                        ELSE encoded[i]])

\* what find's handler returns, and whether an exception ended it
counted(records, count) ==
  [threw |-> records.threw,
   value |-> [records |-> records.value, count |-> count]]

found(results) ==
  counted(outputRecords(results[1].response.rows),
          parseInt(results[2].response.rows[1]["count"].items[1].s))

RECURSIVE sum(_)
sum(results) ==
  IF results = <<>> THEN 0 ELSE results[1].value + sum(Tail(results))

\* Promise.all and the handler chained to it: rejected with the first
\* rejection, fulfilled when every promise is.  An exception in find's
\* handler rejects find's promise; one in create's callback is caught by
\* nothing and leaves the promise pending.
\* a handler or callback that maps the rows: its outcome, or what becomes of
\* the promise when it throws
handled(out, thrown) ==
  IF out.threw THEN [status |-> thrown, result |-> TypeError]
  ELSE [status |-> "resolved", result |-> out.value]

joined(call, now, i) ==
  IF call.status # "pending" THEN [status |-> call.status, result |-> call.result]
  ELSE IF now[i].state = "rejected"
    THEN [status |-> "rejected",
          result |-> IF call.running = "create" THEN createError(now[i].error)
                     ELSE now[i].error]
  ELSE IF \E j \in 1..Len(now) : now[j].state = "pending"
    THEN [status |-> call.status, result |-> call.result]
  ELSE CASE call.running = "find" -> handled(found(now), "rejected")
         [] call.running = "create" ->
              handled(created(call.input.encoded, call.sent[1],
                              now[1].response), "uncaught")
         [] call.running = "update" ->
              [status |-> "resolved", result |-> sum(now)]
         [] OTHER -> [status |-> "resolved", result |-> now[1].value]

\* mutant: the statements are run one after the other and the first
\* rejection ends the run
unsentAbandoned(q, settled) ==
  IF settled.state = "rejected" THEN <<>> ELSE Tail(q)

\* the statements still on the connection after its oldest one has run:
\* every statement was handed over when the method was called, and a
\* rejection takes none of them back
unsent(q, settled) == Tail(q)

\* whether connection c may end under a statement: not before pg.end(),
\* always once it has ended under an earlier one
mayEnd(c) ==
  CASE conn.pool[c] = "open" -> {FALSE}
    [] conn.pool[c] = "ending" -> BOOLEAN
    [] OTHER -> {TRUE}

\* a call after the callback of its i-th statement has run
answered(call, now, end, i, was, is) ==
  [call EXCEPT !.slots = now, !.status = end.status, !.result = end.result,
               !.before = IF i = 1 THEN was ELSE @, !.after = is]

\* ---- connect
\* The statements of connect; the model has one record type, so that
\* types.map gives one statement.  The text of 'alter table' names the
\* column in columns; the store of the model does not read its data type.
setMessages == [Stmt0 EXCEPT !.kind = "set"]
createTable == [Stmt0 EXCEPT !.kind = "create table", !.columns = <<primaryKey>>]
getColumns == [Stmt0 EXCEPT !.kind = "columns"]
addColumn(field) == [Stmt0 EXCEPT !.kind = "alter", !.columns = <<field>>]

\* the fields no row of information_schema.columns names, in the order of
\* Object.getOwnPropertyNames (the record types of the model name their
\* fields in sorted order): one 'alter table' each
addColumns(rows) ==
  MapSeq(addColumn,
         SelectSeq(orderedFields,
                   LAMBDA f : ~\E i \in 1..Len(rows) : rows[i].column_name = f))

\* this.client of an object (0 the adapter, s the s-th scope), and whether
\* the object has that property
clientOf(object) ==
  IF object = 0 THEN [own |-> conn.own, client |-> conn.client]
  ELSE [own |-> tx.scopes[object].own, client |-> tx.scopes[object].uses]

\* the statements the next handler of the chain hands to this.client, after
\* the statements of kind stage have come back
chained(stage, response) ==
  CASE stage = "connect" -> <<setMessages>>
    [] stage = "set" -> <<createTable>>
    [] stage = "create table" -> <<getColumns>>
    [] stage = "columns" -> addColumns(response.rows)
    [] OTHER -> <<>>

\* the handler of the chain that runs when the statements of a stage have
\* come back, with the statements next: this.client is read when the handler
\* runs, and a TypeError in the executor of a promise rejects it
handler(call, now, this, stage, next) ==
  IF stage = "alter" \/ (stage = "columns" /\ next = <<>>)
    THEN [call EXCEPT !.slots = now, !.status = "resolved", !.result = Null]
  ELSE IF ~this.own
    THEN [call EXCEPT !.slots = now, !.status = "rejected", !.result = TypeError]
  ELSE [call EXCEPT !.sent = @ \o next,
                    !.slots = now \o [i \in 1..Len(next) |-> Pending]]

\* the callback of the i-th statement of connect: the first error rejects
\* connect, the last statement of a stage calls the next handler
advance(call, now, i) ==
  IF call.status # "pending" THEN [call EXCEPT !.slots = now]
  ELSE IF now[i].state = "rejected"
    THEN [call EXCEPT !.slots = now, !.status = "rejected",
                      !.result = now[i].error]
  ELSE IF \E j \in 1..Len(now) : now[j].state = "pending"
    THEN [call EXCEPT !.slots = now]
  ELSE handler(call, now, clientOf(call.input.object),
               call.sent[Len(call.sent)].kind,
               chained(call.sent[Len(call.sent)].kind, now[i].response))

\* connect(), called again on an object: the options are those the first
\* connect found valid; pg.connect is asked for a connection, and the
\* application holds the promise
connectOn(object) ==
  /\ conn.connects < MaxConnects
  /\ free # {}
  /\ made < MaxMade
  /\ made' = made + 1
  /\ conn' = [conn EXCEPT !.connects = @ + 1]
  /\ calls' = [calls EXCEPT ![slot] =
       [running |-> "connect",
        input |-> [object |-> object, resolved |-> FALSE],
        status |-> "pending", result |-> NoValue, sent |-> <<>>,
        slots |-> <<>>, before |-> table, after |-> table,
        connected |-> clientOf(object).own, alone |-> TRUE]]
  /\ UNCHANGED <<configVars, txVars, storeVars, codecVars, queue>>

connect == connectOn(0)

\* the connections pg.connect may hand out: one the pool holds, or a new one
acquirable ==
  {c \in Clients : conn.idle[c]} \cup
  (IF conn.count < MaxClients THEN {conn.count + 1} ELSE {})

\* pg after it has handed out connection client
acquired(pg, client) ==
  [pg EXCEPT !.count = IF client > @ THEN client ELSE @,
             !.idle[client] = FALSE]

\* The callback of connect's pg.connect: it rejects connect, or it makes the
\* connection this.client and its done function this.done, in place of what
\* they were, and resolves the promise the chain starts from.
connectCallback ==
  \E c \in Callers :
    LET object == calls[c].input.object
    IN /\ calls[c].running = "connect"
       /\ calls[c].status = "pending"
       /\ ~calls[c].input.resolved
       /\ \/ /\ calls' = [calls EXCEPT ![c].status = "rejected",
                                       ![c].result = ConnectionError(0)]
             /\ UNCHANGED <<conn, tx>>
          \/ \E client \in acquirable :
               /\ calls' = [calls EXCEPT ![c].input.resolved = TRUE]
               /\ conn' = [acquired(conn, client) EXCEPT
                             !.client = IF object = 0 THEN client ELSE @,
                             !.own = IF object = 0 THEN TRUE ELSE @,
                             !.done = IF object = 0 THEN client ELSE @]
               /\ tx' = IF object = 0 THEN tx
                        ELSE [tx EXCEPT !.scopes[object].uses = client,
                                        !.scopes[object].own = TRUE,
                                        !.scopes[object].done = client]
       /\ UNCHANGED <<configVars, storeVars, codecVars, made, queue>>

\* The first handler of connect's chain, which runs once the promise of
\* pg.connect has resolved: it hands 'set client_min_messages' to what
\* this.client is by then.
connectResolved ==
  \E c \in Callers :
    /\ calls[c].running = "connect"
    /\ calls[c].status = "pending"
    /\ calls[c].input.resolved
    /\ calls[c].sent = <<>>
    /\ calls' = [calls EXCEPT ![c] =
                   handler(@, <<>>, clientOf(@.input.object), "connect",
                           chained("connect", NoValue))]
    /\ queue' = IF clientOf(calls[c].input.object).own
                THEN Append(queue, Queued(clientOf(calls[c].input.object).client,
                                          c, 1, setMessages))
                ELSE queue
    /\ UNCHANGED <<configVars, storeVars, codecVars, made, conn, tx>>

\* ---- the store at work
\* the statements that are the oldest on their connection
heads ==
  {k \in 1..Len(queue) :
     \A j \in 1..(k - 1) : queue[j].client # queue[k].client}

without(q, k) == SubSeq(q, 1, k - 1) \o SubSeq(q, k + 1, Len(q))

\* a statement of a transaction scope is told from one of a call by its text
isWire(e) == "text" \in DOMAIN e

\* the error the driver hands to the callback of statement e
errorOf(e, lost, out, native) ==
  IF lost THEN ConnectionError(e.i)
  ELSE IF out.response.error = "" THEN NoError
  ELSE DriverError(out.response.error, native, e.i)

closed(lost, client) ==
  IF lost THEN [conn EXCEPT !.pool[client] = "closed"] ELSE conn

\* the callback of a statement of connect has run
connectAnswered(e, others, lost, settled, call) ==
  /\ queue' = unsent(<<e>> \o others, settled)
                \o [j \in 1..(Len(call.sent) - Len(calls[e.call].sent)) |->
                      Queued(clientOf(call.input.object).client, e.call,
                             Len(calls[e.call].sent) + j,
                             call.sent[Len(calls[e.call].sent) + j])]
  /\ conn' = closed(lost, e.client)
  /\ calls' = [calls EXCEPT ![e.call] = call]

\* a call some of whose statements have run and some have not, when a
\* statement of another call has run
disturbed(call, changed) ==
  IF /\ changed
     /\ \E i \in 1..Len(call.slots) : call.slots[i].state # "pending"
     /\ \E i \in 1..Len(call.slots) : call.slots[i].state = "pending"
    THEN [call EXCEPT !.alone = FALSE]
  ELSE call

\* the callback of a statement of a call of find, create, update or delete
\* has run
callAnswered(e, others, lost, out, settled, call) ==
  /\ queue' = unsent(<<e>> \o others, settled)
  /\ conn' = closed(lost, e.client)
  /\ calls' = [c \in Callers |->
                IF c = e.call
                THEN answered(call, [call.slots EXCEPT ![e.i] = settled],
                              joined(call, [call.slots EXCEPT ![e.i] = settled],
                                     e.i),
                              e.i, table, out.table)
                ELSE disturbed(calls[c], out.table # table)]

\* the call a statement belongs to
callOf(e) == IF e.call = 0 THEN Call0 ELSE calls[e.call]

ran(e, others, lost, out, error) ==
  /\ table' = out.table
  /\ serial' = out.serial
  /\ IF callOf(e).running = "connect"
       THEN connectAnswered(e, others, lost, callback(error, out.response),
                            advance(calls[e.call],
                                    [calls[e.call].slots EXCEPT
                                       ![e.i] = callback(error, out.response)],
                                    e.i))
     ELSE callAnswered(e, others, lost, out,
                       IF callOf(e).running = "update"
                       THEN updateCallback(error, out.response)
                       ELSE callback(error, out.response),
                       callOf(e))
  /\ UNCHANGED <<configVars, txVars, codecVars, made>>

\* A connection runs its oldest statement and calls that statement's
\* callback.
StoreStep ==
  \E k \in heads :
    /\ ~isWire(queue[k])
    /\ \E lost \in mayEnd(queue[k].client), native \in BOOLEAN :
         \E out \in IF lost
                     THEN {[response |-> Response("", <<>>, 0),
                            table |-> table, serial |-> serial]}
                     ELSE execute(queue[k].statement) :
           /\ ((lost \/ out.response.error = "") => ~native)
           /\ ran(queue[k], without(queue, k), lost, out,
                  errorOf(queue[k], lost, out, native))

\* The application takes the outcome of a call and lets go of it; the
\* statements of the call that are still on the connection stay there.
Return ==
  \E c \in Callers :
    /\ calls[c].status \in {"resolved", "rejected", "threw"}
    /\ calls' = [calls EXCEPT ![c] = Call0]
    /\ queue' = [k \in 1..Len(queue) |->
                   IF queue[k].call = c
                   THEN Queued(queue[k].client, 0, 0, queue[k].statement)
                   ELSE queue[k]]
    /\ UNCHANGED <<configVars, txVars, storeVars, codecVars, conn, made>>

\* pg.end(): every pool is let go of, its connections end when they are
\* given back, and none of them is handed out again
ended(pg) ==
  [pg EXCEPT !.pool = [c \in Clients |->
                         IF c <= pg.count /\ pg.pool[c] = "open" THEN "ending"
                         ELSE pg.pool[c]],
             !.idle = [c \in Clients |-> FALSE],
             !.ended = @ + 1]

\* disconnect(): this.client is deleted, this.done() gives its connection
\* back to the pool whatever is still on it, pg.end() ends the pools
disconnect ==
  /\ conn.ended < MaxDone
  /\ made < MaxMade
  /\ made' = made + 1
  /\ conn' = ended([conn EXCEPT !.own = FALSE, !.released[conn.done] = @ + 1])
  /\ UNCHANGED <<configVars, txVars, storeVars, codecVars, calls, queue>>

\* ---------------------------------------------------------- transactions
\* beginTransaction gets its connection from pg.connect, which hands out a
\* connection of the pool that was given back, or a new one.  scopes holds
\* the scopes in the order beginTransaction was called, ends the calls of
\* endTransaction in the order they were made, log[c] the statements of the
\* scopes that connection c has completed.
Tx0 ==
  [scopes |-> <<>>, ends |-> <<>>, log |-> [c \in Clients |-> <<>>]]

\* a scope: parent is the object beginTransaction was called on (0 the
\* adapter, s the s-th scope); pc is "connecting" while pg.connect is asked,
\* "beginning" while 'begin' is on the connection, "open" once
\* beginTransaction resolved with the scope, "failed" once it rejected;
\* client is the connection the scope was made with, which endTransaction
\* keeps; uses is this.client, own whether the scope still has that
\* property, done the connection whose done function is this.done; ops
\* counts the methods called on the scope
Scope0(parent) ==
  [parent |-> parent, pc |-> "connecting", client |-> 0, uses |-> 0,
   own |-> FALSE, done |-> 0, ops |-> 0]

\* a statement of a scope on connection client: end is the call of
\* endTransaction it belongs to, 0 when it belongs to none
Wire(client, text, scope, end) ==
  [client |-> client, text |-> text, scope |-> scope, end |-> end]

\* the application makes one more call of a method
called == made < MaxTxMade /\ made' = made + 1

\* the scopes beginTransaction has resolved with
openScopes == {s \in 1..Len(tx.scopes) : tx.scopes[s].pc = "open"}

\* beginTransaction(), of the adapter or of a scope: asks the pool for a
\* connection
beginTransaction ==
  \E parent \in {0} \cup openScopes :
    /\ Len(tx.scopes) < MaxTx
    /\ called
    /\ tx' = [tx EXCEPT !.scopes = Append(tx.scopes, Scope0(parent))]
    /\ UNCHANGED <<configVars, storeVars, codecVars, calls, queue, conn>>

\* this.done of an object
doneOf(object) == IF object = 0 THEN conn.done ELSE tx.scopes[object].done

\* the callback of pg.connect: reject, or make the scope, a copy of the
\* properties of this with the client it is given for this.client, and hand
\* 'begin' to that client
connected ==
  \E s \in 1..Len(tx.scopes) :
    /\ tx.scopes[s].pc = "connecting"
    /\ \/ /\ tx' = [tx EXCEPT !.scopes[s].pc = "failed"]
          /\ UNCHANGED <<queue, conn>>
       \/ \E client \in acquirable :
            /\ tx' = [tx EXCEPT
                        !.scopes[s] = [@ EXCEPT !.pc = "beginning",
                                                !.client = client,
                                                !.uses = client,
                                                !.own = TRUE,
                                                !.done = doneOf(tx.scopes[s].parent)]]
            /\ conn' = acquired(conn, client)
            /\ queue' = Append(queue, Wire(client, "begin", s, 0))
    /\ UNCHANGED <<configVars, storeVars, codecVars, calls, made>>

\* find, create, update or delete called on a scope, ended or not: the
\* method hands its statements, as many as the same call on the adapter, to
\* this.client, and throws or rejects when the scope has none
scopeQuery ==
  \E s \in openScopes, statements \in request.calls :
    LET scope == tx.scopes[s]
    IN /\ scope.ops < MaxTxOps
       /\ called
       /\ tx' = [tx EXCEPT !.scopes[s].ops = @ + 1]
       /\ queue' = IF scope.own
                   THEN queue \o [i \in 1..Len(statements) |->
                                    Wire(scope.uses, statements[i], s, 0)]
                   ELSE queue
       /\ UNCHANGED <<configVars, storeVars, codecVars, calls, conn>>

\* connect() called on a scope
scopeConnect == \E s \in openScopes : connectOn(s)

\* the calls of endTransaction made on scope s
endsOf(s) == {k \in 1..Len(tx.ends) : tx.ends[k].scope = s}

\* the done function of connection client gives it back to its pool, which
\* hands it out again unless pg.end() has let go of the pool
given(pg, client) ==
  [pg EXCEPT !.released[client] = @ + 1,
             !.idle[client] = pg.pool[client] = "open"]

\* endTransaction(error) of a scope, called for the first time or again: the
\* second argument of client.query is the value of
\* error ? reject(error) : resolve(done()), evaluated before client.query is
\* called; client and done are those of the scope's making
endTransaction ==
  \E s \in openScopes, error \in BOOLEAN :
    LET scope == tx.scopes[s]
        k == Len(tx.ends) + 1
    IN /\ Cardinality(endsOf(s)) < MaxEnds
       /\ called
       /\ tx' = [tx EXCEPT
                   !.ends = Append(@, [scope |-> s, error |-> error,
                                       status |-> IF error THEN "rejected"
                                                  ELSE "resolved",
                                       done |-> ~error])]
       /\ conn' = IF error THEN conn ELSE given(conn, scope.client)
       /\ queue' = Append(queue, Wire(scope.client,
                                      IF error THEN "rollback" ELSE "commit",
                                      s, k))
       /\ UNCHANGED <<configVars, storeVars, codecVars, calls>>

\* disconnect() called on a scope: the scope's client property is deleted,
\* this.done() gives back the connection whose done function the scope
\* holds, the one of the object it was copied from unless connect was called
\* on the scope; pg.end() ends the pools
scopeDisconnect ==
  \E s \in openScopes :
    /\ conn.ended < MaxDone
    /\ called
    /\ tx' = [tx EXCEPT !.scopes[s].own = FALSE]
    /\ conn' = ended([conn EXCEPT !.released[tx.scopes[s].done] = @ + 1])
    /\ UNCHANGED <<configVars, storeVars, codecVars, calls, queue>>

\* A connection completes its oldest statement, one of a scope.  The
\* callback of 'begin' settles beginTransaction; 'commit' and 'rollback'
\* were given no callback.
completed(e, ok) ==
  [text |-> e.text, scope |-> e.scope, end |-> e.end, ok |-> ok]

TxStoreStep ==
  \E k \in heads, ok \in BOOLEAN :
    /\ isWire(queue[k])
    /\ queue' = without(queue, k)
    /\ tx' = [tx EXCEPT
                !.log[queue[k].client] = Append(@, completed(queue[k], ok)),
                !.scopes = IF queue[k].text = "begin"
                           THEN [@ EXCEPT ![queue[k].scope].pc =
                                            IF ok THEN "open" ELSE "failed"]
                           ELSE @]
    /\ UNCHANGED <<configVars, storeVars, codecVars, calls, conn, made>>

\* ------------------------------------------------------------- the inputs
K1 == Str(<<"1">>)
K2 == Str(<<"2">>)
K3 == Str(<<"3">>)
Text(c) == Scalar(Str(<<c>>))

RecA == [f \in {"id", "name", "age", "tags"} |->
  CASE f = "id" -> Scalar(K1)
    [] f = "name" -> Text("a")
    [] f = "age" -> Scalar(Num(1))
    [] OTHER -> Array(<<Str(<<"x">>)>>)]
RecB == [f \in {"id", "name", "age"} |->
  CASE f = "id" -> Scalar(K2)
    [] f = "name" -> Scalar(Str(<<"a", "b">>))
    [] OTHER -> Scalar(Num(2))]
RecN == [f \in {"name", "tags"} |->
  CASE f = "name" -> Text("b")
    [] OTHER -> Array(<<Str(<<"x">>), Str(<<"y">>)>>)]
RecBad == [f \in {"id", "age"} |->
  CASE f = "id" -> Scalar(K3)
    [] OTHER -> Text("a")]

\* a record whose array field holds a string
RecOdd == [f \in {"id", "tags"} |->
  CASE f = "id" -> Scalar(K3)
    [] OTHER -> Text("x")]

CreateInputs ==
  {<<>>, <<RecA, RecB>>, <<RecN>>, <<RecB, RecN>>, <<RecBad>>, <<RecA, RecOdd>>}

Pair(f, v) == [f |-> f, v |-> v]
UpdateSpec(id, replace, push, pull) ==
  [id |-> Scalar(id), replace |-> replace, push |-> push, pull |-> pull]

URename(id, c) == UpdateSpec(id, <<Pair("name", Text(c))>>, <<>>, <<>>)
UPush(id) == UpdateSpec(id, <<>>, <<Pair("tags", Text("y"))>>, <<>>)
UPull(id) == UpdateSpec(id, <<Pair("age", Scalar(Num(2)))>>, <<>>,
                        <<Pair("tags", Array(<<Str(<<"x">>), Str(<<"y">>)>>))>>)
UBadValue(id) == UpdateSpec(id, <<Pair("age", Text("a"))>>, <<>>, <<>>)
UNoColumn(id) == UpdateSpec(id, <<Pair("nofield", Text("a"))>>, <<>>, <<>>)
UNothing(id) == UpdateSpec(id, <<>>, <<>>, <<>>)

UpdateInputs ==
  {<<>>,
   <<URename(K1, "b"), UBadValue(K2), UPush(K2)>>,
   <<UNoColumn(K1), UPush(K1)>>,
   <<UNothing(K1), UPull(K1), UNoColumn(K2)>>,
   <<UBadValue(K1), UNothing(K2), URename(K2, "b")>>}

Ids(list) == [given |-> TRUE, list |-> list]
NoIds == [given |-> FALSE, list |-> <<>>]

DeleteInputs == {NoIds, Ids(<<>>), Ids(<<K1>>)}

Options0 ==
  [fields |-> <<>>, match |-> <<>>, contains |-> <<>>, exists |-> <<>>,
   range |-> <<>>, sort |-> <<>>, limit |-> 0, offset |-> 0]

Range(f, lo, hi) == [f |-> f, lo |-> lo, hi |-> hi]

FindInputs ==
  {[ids |-> Ids(<<>>), options |-> Options0],
   [ids |-> NoIds,
    options |-> [Options0 EXCEPT !.match = <<Pair("name", Text("b"))>>,
                                 !.limit = 1]],
   [ids |-> NoIds,
    options |-> [Options0 EXCEPT !.contains = <<Pair("name", Str(<<"a">>))>>]],
   [ids |-> Ids(<<K1, K2>>),
    options |-> [Options0 EXCEPT !.sort = <<Pair("nofield", TRUE)>>]]}

\* ---------------------------------------------------- the adapter at work
find == \E c \in FindInputs : findWith(c.ids, c.options)

\* the rows the inserts waiting on the connection hold, and the statements
\* waiting there that push
queuedRows ==
  total([k \in 1..Len(queue) |->
           IF queue[k].statement.kind = "insert"
           THEN Len(queue[k].statement.values) ELSE 0])
pushes(statement) ==
  \E i \in 1..Len(statement.set) :
    statement.set[i].op \in {"array_append", "array_cat"}
queuedPushes ==
  total([k \in 1..Len(queue) |-> IF pushes(queue[k].statement) THEN 1 ELSE 0])

create ==
  \E records \in CreateInputs,
     generated \in {<<Str(<<"g">>), Str(<<"h">>)>>, <<Str(<<"h">>), Str(<<"h">>)>>} :
    /\ Cardinality(table) + queuedRows + Len(records) <= MaxRows
    /\ serial + queuedRows + Len(records) <= MaxSerial
    /\ createWith(records, generated)

update ==
  \E updates \in UpdateInputs :
    /\ (\E i \in 1..Len(updates) : updates[i].push # <<>>) =>
         /\ queuedPushes = 0
         /\ \A r \in table : Len(r["tags"].items) < MaxTags
    /\ updateWith(updates)

delete == \E ids \in DeleteInputs : deleteWith(ids)

Init ==
  /\ recordTypes = UserType
  /\ \E generator \in BOOLEAN :
       /\ generatePrimaryKey = generator
       /\ primaryKeyType = IF generator THEN "text" ELSE "serial"
  /\ table = {}
  /\ serial = 0
  /\ Idle
  /\ request = NoValue
  /\ cval = NoValue
  /\ crec = NoValue
  /\ compiled = NoValue
  /\ tx = Tx0

Next ==
  \/ find
  \/ create
  \/ update
  \/ delete
  \/ StoreStep
  \/ Return
  \/ disconnect
  \/ connect
  \/ connectCallback
  \/ connectResolved

\* ---------------------------------------------------- transactions at work
\* the statements find, create, update and delete hand to this.client
findHanded(ids, options) ==
  IF noOp(ids) THEN <<>> ELSE buildFind(ids, options).statements

encodedAll(records, generated) ==
  [i \in 1..Len(records) |-> inputRecord(records[i], generated)]

createHanded(records, generated) ==
  IF Len(records) = 0 THEN <<>>
  ELSE IF \E i \in 1..Len(records) :
            isThrown(encodedAll(records, generated)[i]) THEN <<>>
  ELSE <<createRecords(encodedAll(records, generated))>>

updateHanded(updates) == MapSeq(updateRecord, updates)

deleteHanded(ids) == IF noOp(ids) THEN <<>> ELSE <<deleteRecords(ids)>>

kinds(statements) == [i \in 1..Len(statements) |-> statements[i].kind]

\* the calls the scopes are driven with, each as the statements it hands over
ScopeCalls ==
  {kinds(findHanded(c.ids, c.options)) : c \in FindInputs}
  \cup {kinds(createHanded(records, Str(<<"g">>))) : records \in {<<>>, <<RecN>>}}
  \cup {kinds(updateHanded(updates)) :
           updates \in {<<>>, <<UNoColumn(K1), UPush(K1)>>}}
  \cup {kinds(deleteHanded(ids)) : ids \in DeleteInputs}

InitTx ==
  /\ recordTypes = UserType
  /\ generatePrimaryKey = TRUE
  /\ primaryKeyType = "text"
  /\ table = {}
  /\ serial = 0
  /\ Idle
  /\ request = [calls |-> ScopeCalls]
  /\ cval = NoValue
  /\ crec = NoValue
  /\ compiled = NoValue
  /\ tx = Tx0

NextTx ==
  \/ beginTransaction
  \/ connected
  \/ scopeQuery
  \/ scopeConnect
  \/ endTransaction
  \/ scopeDisconnect
  \/ disconnect
  \/ connect
  \/ connectCallback
  \/ connectResolved
  \/ StoreStep
  \/ TxStoreStep

\* ------------------------------------------------- find, every option
SampleTable ==
  {[f \in {"id", "name", "age", "tags"} |->
      CASE f = "id" -> Scalar(K1)
        [] f = "name" -> Text("a")
        [] f = "age" -> Scalar(Num(1))
        [] OTHER -> Array(<<Str(<<"x">>)>>)],
   [f \in {"id", "name", "age", "tags"} |->
      CASE f = "id" -> Scalar(K2)
        [] f = "name" -> Scalar(Str(<<"a", "b">>))
        [] f = "age" -> Scalar(Num(2))
        [] OTHER -> Array(<<>>)],
   [f \in {"id", "name", "age", "tags"} |->
      CASE f = "id" -> Scalar(K3)
        [] f = "name" -> Scalar(Null)
        [] f = "age" -> Scalar(Null)
        [] OTHER -> Array(<<Str(<<"x">>), Str(<<"y">>)>>)]}

AllIds == {NoIds, Ids(<<>>), Ids(<<K1>>), Ids(<<K2, K1>>)}

\* the options that make the WHERE clause, in every combination
FilterOptions ==
  {[Options0 EXCEPT !.match = m, !.contains = c, !.exists = e, !.range = r] :
     m \in {<<>>,
            <<Pair("name", Text("a"))>>,
            <<Pair("name", Array(<<Str(<<"a">>), Str(<<"a", "b">>)>>))>>,
            <<Pair("age", Scalar(Num(1))), Pair("tags", Text("x"))>>,
            <<Pair("nofield", Text("a"))>>,
            <<Pair("constructor", Text("a"))>>},
     c \in {<<>>, <<Pair("name", Str(<<"a">>))>>,
            <<Pair("nofield", Str(<<"a">>))>>},
     e \in {<<>>, <<Pair("name", TRUE), Pair("tags", FALSE)>>,
            <<Pair("nofield", TRUE)>>,
            <<Pair("toString", FALSE), Pair("name", TRUE)>>},
     r \in {<<>>,
            <<Range("age", Num(1), Null), Range("tags", Undef, Num(1))>>,
            <<Range("age", Null, Null)>>,
            <<Range("nofield", Num(1), Null)>>,
            <<Range("valueOf", Num(1), Num(2))>>}}

\* the options that make the select list, the ORDER BY clause and the slice,
\* in every combination, over some of the filters
PresentedOptions ==
  {[o EXCEPT !.fields = f, !.sort = s, !.limit = l, !.offset = k] :
     o \in {Options0,
            [Options0 EXCEPT !.match =
               <<Pair("name", Array(<<Str(<<"a">>), Str(<<"a", "b">>)>>))>>],
            [Options0 EXCEPT !.exists = <<Pair("name", TRUE), Pair("tags", FALSE)>>]},
     f \in {<<>>, <<Pair("name", FALSE)>>, <<Pair("age", TRUE)>>},
     s \in {<<>>, <<Pair("age", FALSE), Pair("tags", TRUE)>>,
            <<Pair("nofield", TRUE)>>, <<Pair("hasOwnProperty", TRUE)>>},
     l \in {0, 1},
     k \in {0, 1}}

AllOptions == FilterOptions \cup PresentedOptions

\* the application calls find with its request, as often as it likes and
\* without waiting for the calls before
findAny == findWith(request.ids, request.options)

InitFind ==
  /\ recordTypes = UserType
  /\ generatePrimaryKey = TRUE
  /\ primaryKeyType = "text"
  /\ table = SampleTable
  /\ serial = 0
  /\ Idle
  /\ \E ids \in AllIds, options \in AllOptions :
       request = [ids |-> ids, options |-> options]
  /\ cval = NoValue
  /\ crec = NoValue
  /\ compiled = NoValue
  /\ tx = Tx0

NextFind == findAny \/ StoreStep \/ Return

\* ---------------------------------------------------------- generateQuery
\* A JavaScript value as generateQuery and its helpers meet it: an object
\* with its own keys in order (entries [key, value]), an Array, undefined,
\* or a value that is none of these (a cell).
JObject(entries) == [t |-> "object", entries |-> entries, items |-> <<>>]
JArray(items) == [t |-> "array", entries |-> <<>>, items |-> items]
JUndefined == [t |-> "undefined", entries |-> <<>>, items |-> <<>>]
JValue(cell) == [t |-> "value", entries |-> <<>>, items |-> <<cell>>]
Entry(key, value) == [key |-> key, value |-> value]

\* the enumerable properties a Buffer inherits from Buffer.prototype, in the
\* order for..in visits them (the names of Node 20): every one holds a
\* function, but parent, the memory of the Buffer (an ArrayBuffer, which
\* for..in finds no key in), and offset, the byteOffset of the Buffer in
\* that memory
BufferPrototypeKeys ==
  <<"readBigUInt64LE", "readBigUInt64BE", "readBigUint64LE",
    "readBigUint64BE", "readBigInt64LE", "readBigInt64BE",
    "writeBigUInt64LE", "writeBigUInt64BE", "writeBigUint64LE",
    "writeBigUint64BE", "writeBigInt64LE", "writeBigInt64BE", "readUIntLE",
    "readUInt32LE", "readUInt16LE", "readUInt8", "readUIntBE",
    "readUInt32BE", "readUInt16BE", "readUintLE", "readUint32LE",
    "readUint16LE", "readUint8", "readUintBE", "readUint32BE",
    "readUint16BE", "readIntLE", "readInt32LE", "readInt16LE", "readInt8",
    "readIntBE", "readInt32BE", "readInt16BE", "writeUIntLE",
    "writeUInt32LE", "writeUInt16LE", "writeUInt8", "writeUIntBE",
    "writeUInt32BE", "writeUInt16BE", "writeUintLE", "writeUint32LE",
    "writeUint16LE", "writeUint8", "writeUintBE", "writeUint32BE",
    "writeUint16BE", "writeIntLE", "writeInt32LE", "writeInt16LE",
    "writeInt8", "writeIntBE", "writeInt32BE", "writeInt16BE",
    "readFloatLE", "readFloatBE", "readDoubleLE", "readDoubleBE",
    "writeFloatLE", "writeFloatBE", "writeDoubleLE", "writeDoubleBE",
    "asciiSlice", "base64Slice", "base64urlSlice", "latin1Slice",
    "hexSlice", "ucs2Slice", "utf8Slice", "asciiWrite", "base64Write",
    "base64urlWrite", "latin1Write", "hexWrite", "ucs2Write", "utf8Write",
    "parent", "offset", "copy", "toString", "equals", "inspect", "compare",
    "indexOf", "lastIndexOf", "includes", "fill", "write", "toJSON",
    "subarray", "slice", "swap16", "swap32", "swap64", "toLocaleString">>

Function == [k |-> "function", n |-> 0, s |-> <<>>, b |-> <<>>]

\* the keys for..in walks, with what they hold: the own keys of an object,
\* the indices of an Array and of a string, the indices of a Buffer and
\* then what it inherits; a number, null and undefined have none
indexed(items) == [i \in 1..Len(items) |-> Entry(ToString(i - 1), items[i])]

inherited(names, buffer) ==
  [i \in 1..Len(names) |->
     Entry(names[i],
           CASE names[i] = "parent" -> JObject(<<>>)
             [] names[i] = "offset" -> JValue(Scalar(Num(buffer.n)))
             [] OTHER -> JValue(Scalar(Function)))]

ownKeys(x) ==
  LET cell == x.items[1]
      value == cell.items[1]
  IN CASE x.t = "object" -> x.entries
       [] x.t = "array" -> indexed(x.items)
       [] x.t = "undefined" -> <<>>
       [] cell.arr ->
            indexed([i \in 1..Len(cell.items) |-> JValue(Scalar(cell.items[i]))])
       [] value.k = "str" ->
            indexed([i \in 1..Len(value.s) |-> JValue(Scalar(Str(<<value.s[i]>>)))])
       [] value.k = "buf" ->
            indexed([i \in 1..Len(value.b) |-> JValue(Scalar(Num(value.b[i])))])
            \o inherited(BufferPrototypeKeys, value)
       [] OTHER -> <<>>

\* Array.isArray(x), and whether x is an Array without elements
isArray(x) == x.t = "array" \/ (x.t = "value" /\ x.items[1].arr)
isEmptyArray(x) ==
  \/ x.t = "array" /\ x.items = <<>>
  \/ x.t = "value" /\ x.items[1].arr /\ x.items[1].items = <<>>

\* the truthiness of what a key holds
jsTruthy(x) ==
  CASE x.t = "undefined" -> FALSE
    [] x.t = "value" /\ ~x.items[1].arr -> truthy(x.items[1].items[1])
    [] OTHER -> TRUE

Query(where, parameters, err) ==
  [where |-> where, parameters |-> parameters, err |-> err]

\* one turn of applyMatch's loop: index, which mapValue, mapValueCast and
\* the scalar branch increment, is declared nowhere in the module
applyMatchField(q, fields, e) ==
  IF noField(fields, e.key) THEN [q EXCEPT !.err = "TypeError"]
  ELSE IF ~fieldIsArray(fields, e.key)
    THEN IF isEmptyArray(e.value)
         THEN [q EXCEPT !.where = Append(q.where, Clause("in", e.key, <<>>))]
         ELSE [q EXCEPT !.err = "ReferenceError"]
  ELSE IF isEmptyArray(e.value)
    THEN [q EXCEPT !.where = Append(q.where, Clause("@>", e.key, <<>>))]
  ELSE [q EXCEPT !.err = "ReferenceError"]

applyMatch(adapter, where, fields, match, parameters) ==
  forIn(LAMBDA q, e : applyMatchField(q, fields, e),
        Query(where, parameters, ""), ownKeys(match))

applyExistsField(q, fields, e) ==
  IF noField(fields, e.key) THEN [q EXCEPT !.err = "TypeError"]
  ELSE LET value == jsTruthy(e.value)
       IN [q EXCEPT !.where = Append(q.where,
             IF ~fieldIsArray(fields, e.key)
             THEN Clause(IF value THEN "is not null" ELSE "is null", e.key, <<>>)
             ELSE Clause(IF value THEN "len > 0" ELSE "len = 0", e.key, <<>>))]

applyExists(adapter, where, fields, exists, parameters) ==
  forIn(LAMBDA q, e : applyExistsField(q, fields, e),
        Query(where, parameters, ""), ownKeys(exists))

\* applyRange reads isArrayKey, which it does not declare, in the first turn
\* of its loop
applyRange(adapter, where, fields, range, parameters) ==
  IF ownKeys(range) = <<>> THEN Query(where, parameters, "")
  ELSE Query(where, parameters, "ReferenceError")

RECURSIVE generateQuery(_, _, _, _, _)
RECURSIVE applyLogicalAnd(_, _, _, _, _)
RECURSIVE applyLogicalAndFrom(_, _, _, _, _)

\* the loop of applyLogicalAnd from its i-th turn: generateQuery fills a
\* fresh list inner, which goes into the list outer; the function returns
\* neither
applyLogicalAndFrom(adapter, fields, clauses, parameters, i) ==
  IF i > Len(clauses.items) THEN ""
  ELSE LET inner == generateQuery(adapter, <<>>, fields,
                                  JValue(clauses.items[i]), parameters)
       IN IF inner.err # "" THEN inner.err
          ELSE applyLogicalAndFrom(adapter, fields, clauses, parameters, i + 1)

\* the exception applyLogicalAnd ends with, "" when none
applyLogicalAnd(adapter, where, fields, clauses, parameters) ==
  IF clauses.t = "undefined" THEN "TypeError"
  ELSE applyLogicalAndFrom(adapter, fields, clauses, parameters, 1)

\* the switch of generateQuery from the i-th key of options on
RECURSIVE generateQueryFrom(_, _, _, _, _)
generateQueryFrom(adapter, q, fields, options, i) ==
  IF i > Len(ownKeys(options)) \/ q.err # "" THEN q
  ELSE LET e == ownKeys(options)[i]
           next(r) == generateQueryFrom(adapter, r, fields, options, i + 1)
       IN CASE e.key = "and" ->
                 \* called with four arguments: where is taken for the
                 \* adapter, fields for where, the clauses for fields and
                 \* the parameters for the clauses
                 [q EXCEPT !.err =
                    applyLogicalAnd(q.where, fields, e.value, q.parameters,
                                    JUndefined)]
            [] e.key \in {"or", "not"} -> [q EXCEPT !.err = "ReferenceError"]
            [] e.key = "range" ->
                 next(applyRange(adapter, q.where, fields, e.value, q.parameters))
            [] e.key = "match" ->
                 next(applyMatch(adapter, q.where, fields, e.value, q.parameters))
            [] e.key = "exists" ->
                 next(applyExists(adapter, q.where, fields, e.value, q.parameters))
            [] OTHER -> next(q)

generateQuery(adapter, where, fields, options, parameters) ==
  generateQueryFrom(adapter, Query(where, parameters, ""), fields, options, 1)

\* ---- the filters generateQuery is driven with
MatchOf(pairs) == JObject(MapSeq(LAMBDA p : Entry(p.f, JValue(p.v)), pairs))

QueryLeaves ==
  {JObject(<<Entry("match", MatchOf(<<Pair("name", Text("a"))>>))>>),
   JObject(<<Entry("match", MatchOf(<<Pair("age", Scalar(Num(1))),
                                      Pair("tags", Text("x"))>>))>>),
   JObject(<<Entry("match", MatchOf(<<Pair("name", Array(<<>>))>>))>>),
   JObject(<<Entry("match", MatchOf(<<Pair("name",
                      Array(<<Str(<<"a">>), Str(<<"b">>)>>))>>))>>),
   JObject(<<Entry("exists", MatchOf(<<Pair("name", Scalar(Num(1))),
                                       Pair("tags", Scalar(Num(0)))>>))>>),
   JObject(<<Entry("exists", MatchOf(<<Pair("tags", Scalar(Num(1)))>>)),
             Entry("match", MatchOf(<<Pair("name", Text("b"))>>))>>),
   JObject(<<Entry("range", MatchOf(<<Pair("age", Array(<<Num(1), Num(2)>>))>>))>>),
   JObject(<<Entry("contains", MatchOf(<<Pair("name", Text("a"))>>))>>),
   JObject(<<Entry("match", JValue(Array(<<Str(<<"x">>)>>)))>>),
   JObject(<<Entry("exists", JValue(Scalar(Str(<<"a", "b">>))))>>),
   JObject(<<Entry("range", JArray(<<JValue(Array(<<Num(1), Num(2)>>))>>))>>),
   JObject(<<Entry("match", MatchOf(<<Pair("constructor", Array(<<>>))>>))>>),
   JObject(<<Entry("match", MatchOf(<<Pair("constructor", Text("a"))>>))>>),
   JObject(<<Entry("exists", MatchOf(<<Pair("toString", Scalar(Num(0))),
                                       Pair("name", Scalar(Num(1)))>>))>>),
   JObject(<<Entry("match", JValue(Scalar(Buf(<<>>))))>>),
   JObject(<<Entry("exists", JValue(Scalar(BufAt(<<7>>, 8))))>>),
   JObject(<<Entry("range", JValue(Scalar(Buf(<<>>))))>>),
   JObject(<<>>)}

Logical(key, nodes) == JObject(<<Entry(key, JArray(nodes))>>)

QueryFilters ==
  QueryLeaves
  \cup {Logical("and", <<a, b>>) : a, b \in QueryLeaves}
  \cup {Logical("or", <<a, b>>) : a, b \in QueryLeaves}
  \cup {JObject(<<Entry("not", a)>>) : a \in QueryLeaves}
  \cup {JObject(<<Entry("exists", MatchOf(<<Pair("name", Scalar(Num(1)))>>)),
                  Entry("and", JArray(<<a, Logical("or", <<a, b>>)>>))>>) :
          a, b \in QueryLeaves}

\* the parameters already in the list when the filter is compiled
QueryParameters == {<<>>, <<Scalar(K1), Scalar(K2)>>}

InitQuery ==
  /\ recordTypes = UserType
  /\ generatePrimaryKey = TRUE
  /\ primaryKeyType = "text"
  /\ table = {}
  /\ serial = 0
  /\ Idle
  /\ request = NoValue
  /\ cval = NoValue
  /\ crec = NoValue
  /\ \E f \in QueryFilters, p \in QueryParameters :
       compiled = [pc |-> "start", filter |-> f, where |-> <<>>,
                   parameters |-> p, err |-> ""]
  /\ tx = Tx0

\* generateQuery(adapter, where, fields, options, parameters) on the filter
Compile ==
  /\ compiled.pc = "start"
  /\ LET q == generateQuery([t |-> "adapter"], compiled.where, recordTypes,
                            compiled.filter, JArray(compiled.parameters))
     IN compiled' = [compiled EXCEPT !.pc = "done", !.where = q.where,
                                     !.parameters = q.parameters.items,
                                     !.err = q.err]
  /\ UNCHANGED <<configVars, txVars, storeVars, callVars, cval, crec>>

NextQuery == Compile

\* ---------------------------------------------------- codec specification
Bytes == {0, 10, 171, 255}

RECURSIVE SeqsUpTo(_, _)
SeqsUpTo(S, n) ==
  IF n = 0 THEN {<<>>}
  ELSE LET shorter == SeqsUpTo(S, n - 1)
       IN shorter \cup {Append(q, x) : q \in shorter, x \in S}

CodecBuffers == {Buf(bytes) : bytes \in SeqsUpTo(Bytes, MaxBuf)}
CodecValues ==
  CodecBuffers
  \cup {Null, Undef, Num(7), Str(<<"a", "b">>), Str(<<"\\", "x", "0", "A">>),
        Str(<<"\\", "x", "a", "b", "c">>)}

BlobElems == {Buf(<<>>), Buf(<<10>>), Buf(<<171, 255>>)}
\* what a field may hold that is no value of its kind
OddCells ==
  {Scalar(Num(7)), Scalar(Str(<<"\\", "x", "a", "b">>)), Scalar(Buf(<<171>>)),
   Array(<<Str(<<"\\", "x", "a", "b">>)>>),
   Array(<<Num(1), Null, Num(300), Str(<<"0", "x", "1", "f">>), Buf(<<49>>)>>),
   Array(<<Null, Buf(<<10>>)>>),
   Array(<<Num(1), Null, Buf(<<226, 128, 131, 53>>), Buf(<<226, 130>>),
           Buf(<<11, 55>>)>>)}

BlobRecords ==
  {[f \in dom |->
      CASE f = "data" -> Scalar(d)
        [] f = "blobs" -> Array(bs)
        [] f = "name" -> Scalar(Str(<<"n">>))
        [] OTHER -> Scalar(Str(<<"1">>))] :
    dom \in {{"data", "blobs", "id"}, {"data", "name"}, {"blobs"}, {"id"}},
    d \in BlobElems,
    bs \in SeqsUpTo(BlobElems, MaxBlobs)}
  \cup {[f \in {"data", "blobs"} |-> IF f = "data" THEN d ELSE bs] :
          d \in OddCells \cup {Scalar(Buf(<<10>>))},
          bs \in OddCells \cup {Array(<<Buf(<<10>>)>>)}}

InitCodec ==
  /\ recordTypes = BlobType
  /\ generatePrimaryKey \in BOOLEAN
  /\ primaryKeyType = "text"
  /\ table = {}
  /\ serial = 0
  /\ Idle
  /\ request = NoValue
  /\ compiled = NoValue
  /\ tx = Tx0
  /\ \E v \in CodecValues : cval = [pc |-> "start", orig |-> v, cur |-> v]
  /\ \E r \in BlobRecords : crec = [pc |-> "start", orig |-> r, cur |-> r]

\* inputValue on a value of the application
EncodeValue ==
  /\ cval.pc = "start"
  /\ cval' = [cval EXCEPT !.pc = "encoded", !.cur = inputValue(cval.cur)]
  /\ UNCHANGED <<configVars, txVars, storeVars, callVars, crec, compiled>>

\* outputBuffer on what a binary field holds: the encoded string, or a value
\* the driver already gave as a Buffer
DecodeValue ==
  /\ cval.pc \in {"start", "encoded"}
  /\ cval' = [cval EXCEPT !.pc = "decoded", !.cur = outputBuffer(cval.cur)]
  /\ UNCHANGED <<configVars, txVars, storeVars, callVars, crec, compiled>>

EncodeRecord ==
  /\ crec.pc = "start"
  /\ \E g \in GeneratedKeys :
       crec' = [crec EXCEPT !.pc = "encoded", !.cur = inputRecord(crec.cur, g)]
  /\ UNCHANGED <<configVars, txVars, storeVars, callVars, cval, compiled>>

\* outputRecord on the record inputRecord gave, or on a row as the driver
\* gives it
DecodeRecord ==
  /\ crec.pc \in {"start", "encoded"}
  /\ ~isThrown(crec.cur)
  /\ crec' = [crec EXCEPT !.pc = "decoded", !.cur = outputRecord(crec.cur)]
  /\ UNCHANGED <<configVars, txVars, storeVars, callVars, cval, compiled>>

NextCodec == EncodeValue \/ DecodeValue \/ EncodeRecord \/ DecodeRecord

vars == <<configVars, storeVars, callVars, codecVars, txVars>>

Spec == Init /\ [][Next]_vars

SpecFind == InitFind /\ [][NextFind]_vars

SpecQuery == InitQuery /\ [][NextQuery]_vars

SpecCodec == InitCodec /\ [][NextCodec]_vars

SpecTx == InitTx /\ [][NextTx]_vars

\* ------------------------------------------------------------------ claims

\* ---- what the claims speak of
UpTo(n) == [i \in 1..n |-> i]

mentions(entries, field) == \E i \in 1..Len(entries) : entries[i].f = field

\* whether an option of find names a field the record type does not declare
undeclared(options) ==
  \E g \in {"match", "contains", "exists", "range", "sort"} :
    \E i \in 1..Len(options[g]) : options[g][i].f \notin DOMAIN recordTypes

\* whether a row is one the ids and the filter options of find ask for
satisfies(row, ids, options) ==
  /\ ids.given => \E i \in 1..Len(ids.list) : row[primaryKey] = Scalar(ids.list[i])
  /\ \A i \in 1..Len(options.match) :
       LET e == options.match[i]
       IN IF fieldIsArray(recordTypes, e.f)
          THEN \A j \in 1..Len(e.v.items) : inSeq(row[e.f].items, e.v.items[j])
          ELSE inSeq(e.v.items, row[e.f].items[1])
  /\ \A i \in 1..Len(options.contains) :
       LET e == options.contains[i]
       IN row[e.f].items[1].k = "str" /\ isSubstring(e.v.s, row[e.f].items[1].s)
  /\ \A i \in 1..Len(options.exists) :
       LET e == options.exists[i]
           empty == IF recordTypes[e.f].isArray THEN row[e.f].items = <<>>
                    ELSE row[e.f].items[1].k = "null"
       IN e.v = ~empty
  /\ \A i \in 1..Len(options.range) :
       LET e == options.range[i]
           null == ~recordTypes[e.f].isArray /\ row[e.f].items[1].k = "null"
           size == IF recordTypes[e.f].isArray THEN Len(row[e.f].items)
                   ELSE row[e.f].items[1].n
       IN /\ e.lo.k = "num" => (~null /\ e.lo.n <= size)
          /\ e.hi.k = "num" => (~null /\ size <= e.hi.n)

\* whether no statement of call c waits on the connection
noQueued(c) == \A k \in 1..Len(queue) : queue[k].call # c

\* whether the store answered every statement of a call that has come back
storeAnswered(call) ==
  \A i \in 1..Len(call.slots) : call.slots[i].error.name # "Error"

C1_Of(call) ==
  (call.running = "find" /\ call.sent # <<>>) =>
    \A i \in 1..Len(call.sent) :
      placeholders(call.sent[i].where) = UpTo(Len(call.sent[i].parameters))

\* C1: in every statement find hands to the store, the WHERE clause holds
\* exactly the placeholders $1 .. $n, n the length of the parameter list, in
\* the order the parameters were appended.
C1_OnePlaceholderPerParameter == \A c \in Callers : C1_Of(calls[c])

\* the values a filter binds: one per value of a match, one per bound of a
\* range
RECURSIVE boundValues(_)
RECURSIVE boundValuesIn(_, _)
boundValuesIn(nodes, i) ==
  IF i > Len(nodes) THEN 0
  ELSE boundValues(nodes[i]) + boundValuesIn(nodes, i + 1)

boundValues(node) ==
  total([i \in 1..Len(node.entries) |->
    LET e == node.entries[i]
    IN CASE e.key \in {"and", "or"} -> boundValuesIn(e.value.items, 1)
         [] e.key = "not" -> boundValues(e.value)
         [] e.key \in {"match", "range"} ->
              total([j \in 1..Len(e.value.entries) |->
                       Len(e.value.entries[j].value.items[1].items)])
         [] OTHER -> 0])

isLogical(node) ==
  \E i \in 1..Len(node.entries) : node.entries[i].key \in {"and", "or", "not"}

\* C3: compiling a filter with and, or or not nodes ends without exception,
\* with one parameter appended per value the filter binds and with the
\* placeholders numbered on from the parameters already there, each number
\* once, in increasing order.
C3_GloballyNumbered ==
  (compiled.pc = "done" /\ isLogical(compiled.filter)) =>
    /\ compiled.err = ""
    /\ LET was == Len(compiled.parameters) - boundValues(compiled.filter)
       IN /\ was \in {0, 2}
          /\ placeholders(compiled.where) =
               [i \in 1..boundValues(compiled.filter) |-> was + i]

C9_Of(call) ==
  (call.running = "find" /\ ~(call.input.ids.given /\ call.input.ids.list = <<>>)
     /\ undeclared(call.input.options)) =>
    (call.status = "threw" /\ call.sent = <<>>)

\* C9: a find whose match, contains, exists, range or sort option names an
\* undeclared field, and that has statements to build, throws and hands no
\* statement to the store.
C9_UndeclaredFieldFails == \A c \in Callers : C9_Of(calls[c])

C4_Of(call) ==
  (call.running = "find" /\ call.sent # <<>>) =>
    /\ Len(call.sent) = 2
    /\ call.sent[1].kind = "select" /\ call.sent[2].kind = "count"
    /\ call.sent[2].where = call.sent[1].where
    /\ call.sent[2].parameters = call.sent[1].parameters
    /\ call.sent[2].order = <<>> /\ call.sent[2].limit = 0
    /\ call.sent[2].offset = 0
    /\ call.sent[1].limit = call.input.options.limit
    /\ call.sent[1].offset = call.input.options.offset
    /\ call.status = "resolved" =>
         /\ \A i \in 1..2 : call.slots[i].state = "resolved"
         /\ call.after = call.before
         /\ call.result.count =
              Num(Cardinality({r \in call.before :
                     satisfies(r, call.input.ids, call.input.options)}))

\* C4: the count statement of find has the WHERE clause and the parameters
\* of the data statement and no ORDER BY, LIMIT or OFFSET; find resolves
\* only when both statements have completed, and the count it resolves with
\* is the number of rows the ids and filter options ask for, whatever limit
\* and offset are.
C4_CountMatchesFilter == \A c \in Callers : C4_Of(calls[c])

C4_Witness ==
  \E c \in Callers :
    LET call == calls[c]
    IN /\ call.running = "find" /\ call.status = "resolved" /\ call.sent # <<>>
       /\ call.input.ids.given
       /\ call.input.options.match # <<>>
       /\ call.input.options.limit = 1 /\ call.input.options.sort # <<>>
       /\ call.result.count = Num(2)
       /\ Len(call.result.records) = 1

C8_Of(c) ==
  LET call == calls[c]
  IN /\ (call.running \in {"find", "delete"} /\ call.input.ids.given
           /\ call.input.ids.list = <<>>) =>
          /\ call.status = "resolved"
          /\ call.result = IF call.running = "find" THEN superFind ELSE superDelete
          /\ call.sent = <<>> /\ noQueued(c) /\ call.after = call.before
     /\ (call.running = "create" /\ call.input.records = <<>>) =>
          /\ call.status = "resolved" /\ call.result = superCreate
          /\ call.sent = <<>> /\ noQueued(c) /\ call.after = call.before
     /\ (call.running = "delete" /\ ~call.input.ids.given /\ call.connected) =>
          /\ Len(call.sent) = 1
          /\ call.sent[1].kind = "delete" /\ call.sent[1].where = <<>>
          /\ call.sent[1].parameters = <<>>
          /\ (call.status = "resolved" =>
                (call.after = {} /\ call.result = Cardinality(call.before)))

\* C8: find and delete with an empty id list and create with an empty record
\* list resolve with the empty result, hand no statement to the store and
\* leave the table as it was; delete without an id list, on a connected
\* adapter, hands the store one delete with no WHERE clause and no
\* parameters.
C8_NoOps == \A c \in Callers : C8_Of(c)

C8_Witness ==
  \E c \in Callers :
    LET call == calls[c]
    IN /\ call.running = "delete" /\ call.input.ids.given
       /\ call.input.ids.list = <<>>
       /\ call.status = "resolved" /\ call.result = 0
       /\ Cardinality(table) = 2 /\ queue # <<>>

C5_Of(call) ==
  (call.running = "create" /\ call.sent # <<>>
     /\ call.slots[1].state # "pending"
     /\ call.slots[1].response.error # "") =>
    /\ call.status = "rejected"
    /\ call.slots[1].response.error = "23505" => call.result = ConflictError
    /\ call.slots[1].response.error # "23505" =>
         /\ call.result = call.slots[1].error
         /\ call.result.name = "error"
         /\ getCode(call.result) = call.slots[1].response.error

\* C5: when the store refuses the insert of create, create rejects: with a
\* ConflictError when the code is 23505, with the store's own error object
\* otherwise; it does not resolve.
C5_CreateErrors == \A c \in Callers : C5_Of(calls[c])

C5_Witness ==
  \E c \in Callers :
    /\ calls[c].running = "create" /\ calls[c].status = "rejected"
    /\ calls[c].result = ConflictError
    /\ calls[c].slots[1].error.sqlState = "23505"

\* the rows an Update Specification speaks of, as it asks them to become
specified(u, row) ==
  [c \in tableColumns |->
     IF mentions(u.replace, c)
       THEN u.replace[CHOOSE i \in 1..Len(u.replace) :
                             u.replace[i].f = c].v
     ELSE IF mentions(u.push, c)
       THEN Array(row[c].items \o
                  u.push[CHOOSE i \in 1..Len(u.push) :
                                u.push[i].f = c].v.items)
     ELSE IF mentions(u.pull, c)
       THEN Array(SelectSeq(row[c].items, LAMBDA x :
                    ~inSeq(u.pull[CHOOSE i \in 1..Len(u.pull) :
                                         u.pull[i].f = c].v.items, x)))
     ELSE row[c]]

keyOf(u) == Scalar(stored(primaryKeyType, u.id.items[1]))

\* the table after the Update Specifications the store accepted, one after
\* the other in the order of the call
RECURSIVE applied(_, _, _)
applied(tbl, updates, accepted) ==
  IF updates = <<>> THEN tbl
  ELSE applied(
         IF accepted[1]
         THEN {IF r[primaryKey] = keyOf(updates[1])
               THEN specified(updates[1], r) ELSE r : r \in tbl}
         ELSE tbl,
         Tail(updates), Tail(accepted))

C2_Of(c) ==
  LET call == calls[c]
      slots == call.slots
  IN (call.running = "update" /\ call.connected /\ noQueued(c)
        /\ storeAnswered(call)
        /\ \E i \in 1..Len(slots) :
             slots[i].response.error \notin {"", "42703"}) =>
       /\ \A i \in 1..Len(slots) : slots[i].state # "pending"
       /\ \E i \in 1..Len(slots) :
            /\ slots[i].response.error \notin {"", "42703"}
            /\ \A j \in 1..(i - 1) : slots[j].response.error \in {"", "42703"}
            /\ call.status = "rejected"
            /\ call.result = slots[i].error
            /\ getCode(call.result) = slots[i].response.error
       /\ call.alone =>
            call.after = applied(call.before, call.input.updates,
                           [i \in 1..Len(slots) |-> slots[i].response.error = ""])

\* C2: when the connection has run every statement of an update and the
\* store refused one for a reason other than an undefined column, update has
\* rejected with the error of the first such statement, every statement has
\* been run, and the table holds every Update Specification the store
\* accepted, applied in the order of the call, whatever other calls wait on
\* the connection; the table is compared where no statement on another
\* connection changed it between two statements of the update.
C2_NonAtomicUpdate == \A c \in Callers : C2_Of(c)

C2_Witness ==
  \E c \in Callers :
    LET call == calls[c]
    IN /\ call.running = "update" /\ noQueued(c) /\ call.status = "rejected"
       /\ Len(call.slots) = 3
       /\ call.slots[1].response.rowCount = 1
       /\ call.slots[2].response.error = "22P02"
       /\ call.slots[3].response.rowCount = 1
       /\ call.after # call.before

C7_Of(c) ==
  LET call == calls[c]
      slots == call.slots
  IN (call.running = "update" /\ call.connected /\ noQueued(c)
        /\ storeAnswered(call)
        /\ \A i \in 1..Len(slots) : slots[i].response.error \in {"", "42703"}) =>
       /\ call.status = "resolved"
       /\ call.result = total([i \in 1..Len(slots) |->
                          IF slots[i].response.error = "42703" THEN 0
                          ELSE slots[i].response.rowCount])
       /\ call.alone =>
            call.result = total([i \in 1..Len(slots) |->
                             IF slots[i].response.error = "42703" THEN 0
                             ELSE Cardinality({r \in call.before :
                                    r[primaryKey] = keyOf(call.input.updates[i])})])

\* C7: when the store refuses no statement of an update for a reason other
\* than an undefined column, update resolves, and the number it resolves with
\* is the sum over the Update Specifications of the rows each one's statement
\* changed, 0 for a statement refused for an undefined column; the rows are
\* those the store reported, and those of the table before the update where
\* no statement on another connection changed it in between.
C7_UpdateCount == \A c \in Callers : C7_Of(c)

C7_Witness ==
  \E c \in Callers :
    LET call == calls[c]
    IN /\ call.running = "update" /\ call.status = "resolved"
       /\ call.result = 1
       /\ Len(call.slots) = 2
       /\ call.slots[1].response.error = "42703"
       /\ call.slots[2].response.rowCount = 1

\* whether an insert statement gives the keys of the records literally, as
\* the first column of every row
literalKeys(statement, records) ==
  /\ statement.columns # <<>> /\ statement.columns[1] = primaryKey
  /\ ~statement.returning
  /\ \A k \in 1..Len(records) :
       /\ primaryKey \in DOMAIN records[k]
       /\ argCell(statement, statement.values[k][1]) = records[k][primaryKey]

\* whether an insert statement leaves the key column out and asks the keys back
assignedKeys(statement) ==
  /\ ~inSeq(statement.columns, primaryKey)
  /\ statement.returning

C6_StatedOf(call) ==
  (call.running = "create" /\ call.sent # <<>>) =>
    IF \A i \in 1..Len(call.input.records) :
         primaryKey \in DOMAIN call.input.records[i]
    THEN literalKeys(call.sent[1], call.input.encoded)
    ELSE assignedKeys(call.sent[1])

\* C6 as stated: the keys are literal when every record given to create has
\* one, and left to the store otherwise.
C6_AsStated == \A c \in Callers : C6_StatedOf(calls[c])

C6_Of(call) ==
  (call.running = "create" /\ call.sent # <<>>) =>
    LET every == \A i \in 1..Len(call.input.encoded) :
                   primaryKey \in DOMAIN call.input.encoded[i]
        result == call.result
    IN /\ IF every THEN literalKeys(call.sent[1], call.input.encoded)
          ELSE assignedKeys(call.sent[1])
       /\ generatePrimaryKey => every
       /\ call.status = "resolved" =>
            /\ Len(result) = Len(call.input.encoded)
            /\ \A i \in 1..Len(result) :
                 /\ ~every => result[i][primaryKey] =
                                call.slots[1].response.rows[i][primaryKey]
                 /\ \E r \in call.after :
                      /\ r[primaryKey] = storedCell(primaryKey, result[i][primaryKey])
                      /\ \A f \in DOMAIN recordTypes :
                           r[f] = storedCell(f, call.input.encoded[i][f])

\* C6, amended: the keys are literal when every record has one after
\* inputRecord, which gives a record that has none a generated key when a key
\* generator is configured; otherwise the key column is left out, the keys are
\* asked back and the i-th key that comes back is the key of the i-th record
\* create resolves with.  Either way every record create resolves with has
\* the key of the row that holds its fields.
C6_Keys == \A c \in Callers : C6_Of(calls[c])

C6_Witness ==
  \E c \in Callers :
    LET call == calls[c]
    IN /\ call.running = "create" /\ call.status = "resolved"
       /\ call.sent # <<>>
       /\ call.sent[1].returning
       /\ Len(call.result) = 2
       /\ primaryKey \in DOMAIN call.input.records[1]
       /\ call.result[1][primaryKey] # call.input.records[1][primaryKey]
       /\ call.result[1][primaryKey] # call.result[2][primaryKey]

\* C10: for every binary value v, outputBuffer(inputValue(v)) = v: the
\* encoding is the two-character marker \x followed by two hex digits per
\* byte, decoding it gives back v, a value already a Buffer is decoded to
\* itself, and every binary field and every element of a binary array field
\* of a record comes back from inputRecord followed by outputRecord as it
\* went in.
binaryRecord(record) ==
  /\ "data" \in DOMAIN record =>
       ~record["data"].arr /\ isBuffer(record["data"].items[1])
  /\ "blobs" \in DOMAIN record =>
       /\ record["blobs"].arr
       /\ \A i \in 1..Len(record["blobs"].items) :
            isBuffer(record["blobs"].items[i])

C10_RoundTrip ==
  /\ (cval.pc = "encoded" /\ isBuffer(cval.orig)) =>
       /\ cval.cur.k = "str"
       /\ Len(cval.cur.s) = 2 + 2 * Len(cval.orig.b)
       /\ SubSeq(cval.cur.s, 1, 2) = <<"\\", "x">>
       /\ \A i \in 3..Len(cval.cur.s) :
            \E d \in 1..16 : HexDigits[d] = cval.cur.s[i]
       /\ \A i \in 1..Len(cval.orig.b) :
            /\ hexValue(cval.cur.s[2 * i + 1]) = cval.orig.b[i] \div 16
            /\ hexValue(cval.cur.s[2 * i + 2]) = cval.orig.b[i] % 16
  /\ (cval.pc = "decoded" /\ isBuffer(cval.orig)) => cval.cur = cval.orig
  /\ (crec.pc \in {"encoded", "decoded"} /\ binaryRecord(crec.orig)) =>
       ~isThrown(crec.cur)
  /\ (crec.pc = "decoded" /\ binaryRecord(crec.orig)) =>
       \A f \in DOMAIN crec.orig \cap {"data", "blobs"} :
         /\ f \in DOMAIN crec.cur
         /\ crec.cur[f] = crec.orig[f]

C10_Witness ==
  /\ cval.pc = "decoded" /\ cval.orig = Buf(<<171, 0>>) /\ cval.cur = cval.orig
  /\ crec.pc = "decoded"
  /\ "blobs" \in DOMAIN crec.orig
  /\ crec.orig["blobs"] = Array(<<Buf(<<171, 255>>), Buf(<<>>)>>)
  /\ crec.cur["blobs"] = crec.orig["blobs"]

\* the numbers of the $N placeholders of a whole statement, in text order
allPlaceholders(statement) ==
  LET a == SelectSeq(statementArgs(statement), LAMBDA x : x.dollar)
  IN [i \in 1..Len(a) |-> a[i].n]

\* the values an Update Specification asks to bind, in the order replace,
\* push, pull, every element of a pulled sequence on its own
boundBy(u) ==
  flatten(MapSeq(LAMBDA e : <<IF e.v.arr THEN Array(MapSeq(inputValue, e.v.items))
                              ELSE e.v>>, u.replace))
  \o flatten(MapSeq(LAMBDA e : <<IF e.v.arr THEN Array(MapSeq(inputValue, e.v.items))
                                 ELSE e.v>>, u.push))
  \o flatten(MapSeq(LAMBDA e : IF e.v.arr THEN MapSeq(Scalar, e.v.items)
                               ELSE <<e.v>>, u.pull))

C11_Of(call) ==
  (call.running \in {"create", "update", "delete"} /\ call.sent # <<>>) =>
    \A s \in 1..Len(call.sent) :
      LET st == call.sent[s]
          n == Len(st.parameters)
          input == call.input
      IN /\ allPlaceholders(st) = UpTo(n)
         /\ \A i \in 1..Len(statementArgs(st)) : statementArgs(st)[i].dollar
         /\ call.running = "create" =>
              /\ Len(st.values) = Len(input.encoded)
              /\ \A k \in 1..Len(st.values) :
                   /\ Len(st.values[k]) = Len(st.columns)
                   /\ \A i \in 1..Len(st.columns) :
                        argCell(st, st.values[k][i]) = input.encoded[k][st.columns[i]]
         /\ call.running = "update" =>
              /\ n = Len(boundBy(input.updates[s])) + 1
              /\ SubSeq(st.parameters, 1, n - 1) = boundBy(input.updates[s])
              /\ st.parameters[n] = input.updates[s].id
              /\ st.where = <<Clause("=", primaryKey, <<Ph(n, "")>>)>>
         /\ call.running = "delete" =>
              /\ st.parameters = MapSeq(Scalar, input.ids.list)
              /\ input.ids.given =>
                   st.where = <<Clause("in", primaryKey,
                                       [i \in 1..n |-> Ph(i, "")])>>

\* C11: every statement create, update and delete hand to the store holds
\* exactly the placeholders $1 .. $n, n the length of its parameter list, each
\* once and in the order the parameters were appended; every row tuple of an
\* insert has one placeholder per listed column, bound to the record's value
\* of that column; the parameters of an update are the replace, push and pull
\* values, every element of a pulled sequence on its own, and then the key,
\* which the last placeholder, the one of the WHERE clause, binds.
C11_MutationPlaceholders == \A c \in Callers : C11_Of(calls[c])

C11_Witness ==
  \E c \in Callers :
    LET sent == calls[c].sent
    IN /\ calls[c].running = "update" /\ Len(sent) = 3
       /\ Len(sent[2].parameters) = 4
       /\ sent[2].set[2].op = "array_filter"
       /\ allPlaceholders(sent[2]) = <<1, 2, 3, 4>>
       /\ sent[2].parameters[4] = Scalar(K1)

\* the statements call k of endTransaction handed to a connection, among
\* statements
ending(statements, k) == SelectSeq(statements, LAMBDA s : s.end = k)

\* the statements of the scopes waiting on connection c, oldest first
wire(c) == SelectSeq(queue, LAMBDA e : isWire(e) /\ e.client = c)

\* the statements of scope s among those handed to connection c
onClient(c, s) == SelectSeq(wire(c) \o tx.log[c], LAMBDA x : x.scope = s)

\* C12: a scope is handed out only when the store has completed 'begin'
\* successfully on a connection that is not the adapter's own and that
\* beginTransaction acquired, and the statements run on the scope travel on
\* that connection; every call endTransaction(error) hands exactly one
\* statement, 'rollback' when an error was given and 'commit' otherwise, to
\* the scope's connection, and the connection is released and the promise
\* settled only when the store has completed that statement.
C12_EndTransaction ==
  /\ \A s \in 1..Len(tx.scopes) :
       LET scope == tx.scopes[s]
       IN /\ scope.pc = "open" =>
               /\ scope.client \in 1..conn.count
               /\ \E i \in 1..Len(tx.log[scope.client]) :
                    tx.log[scope.client][i] =
                      [text |-> "begin", scope |-> s, end |-> 0, ok |-> TRUE]
          /\ \A c \in Clients : c # scope.client => onClient(c, s) = <<>>
  /\ \A k \in 1..Len(tx.ends) :
       LET end == tx.ends[k]
           client == tx.scopes[end.scope].client
       IN /\ \A c \in Clients : c # client =>
               ending(wire(c) \o tx.log[c], k) = <<>>
          /\ Len(ending(wire(client) \o tx.log[client], k)) = 1
          /\ ending(wire(client) \o tx.log[client], k)[1].text =
               IF end.error THEN "rollback" ELSE "commit"
          /\ end.status \in {"resolved", "rejected"} =>
               Len(ending(tx.log[client], k)) = 1
          /\ end.done => Len(ending(tx.log[client], k)) = 1

====
